---------------------------- MODULE Spec2Model ----------------------------
(***************************************************************************)
(* Model of the lv_markdown widget (src/src/lv_markdown.c, first            *)
(* translation unit, lines 1-730): the widget data, the md4c callbacks      *)
(* that build the LVGL object tree during a render pass, and the public     *)
(* API that owns the text and the style.                                    *)
(*                                                                          *)
(* A markdown string is identified with the event stream md4c emits for     *)
(* it (md_parse is deterministic).  Strings are sequences of one-character  *)
(* strings.  LVGL objects are entries of the sequence `nodes`; an object's  *)
(* handle is its index, the widget itself is handle Widget.                 *)
(*                                                                          *)
(* Allocations (lv_malloc, lv_realloc, object and span creation) succeed,   *)
(* but under SpecNoMem and, for lv_realloc, under SpecBuf.                  *)
(***************************************************************************)
EXTENDS Integers, Sequences, FiniteSets, TLC

\* ------------------------------------------------------------------ bounds
\* Budget of block-enter, span-enter and text events of one document (leave
\* events and the events of a list spine are not counted): under Spec, under
\* SpecPass, and under SpecPass for a document that starts with a spine.
MaxEvents == 3
MaxPassEvents == 4
MaxSpineEvents == 2
MaxNoMemEvents == 3
MaxFmtEvents == 2
MaxListEvents == 3
\* Number of directly nested lists of a "spine" document.
MaxSpine == 16
\* Budgeted events of a spine document occur while at most this many of the
\* spine's innermost blocks (lists and items) are closed.
SpineReach == 3
\* Calls of code_buf_append under SpecBuf.
MaxAppends == 3
\* Budgets of events under SpecSpan and under SpecAlias.
MaxSpanEvents == 3
MaxAliasEvents == 2

\* ------------------------------------------------------- program constants
MD_LIST_MAX_DEPTH == 16
MD_FMT_BOLD == 1
MD_FMT_ITALIC == 2
MD_FMT_CODE == 4
\* UINT32_MAX is U32_LIMB * U32_LIMB - 1; TLC's integers stop at 2^31 - 1, so
\* 32-bit comparisons are computed on the high limb.
U32_LIMB == 65536
CODE_BUF_INIT_CAP == 256
NUM_BUF_SIZE == 16
BULLET_BUF_SIZE == 32

\* Pointer values: NULL, the widget's own handle (parent of the top-level
\* blocks) and the widget's parent (the screen).
NULL == -1
Widget == 0
Screen == -2
\* A NULL char* where the non-NULL values are strings (sequences).
NULL_BUF == <<"NULL">>
\* A NULL lv_font_t*.
NULL_FONT == "NULL"

Min(a, b) == IF a < b THEN a ELSE b

\* ----------------------------------------------------------------- strings
Digit(d) == <<"0", "1", "2", "3", "4", "5", "6", "7", "8", "9">>[d + 1]

RECURSIVE Decimal(_)
\* printf's %u conversion
Decimal(n) == IF n < 10 THEN <<Digit(n)>>
              ELSE Decimal(n \div 10) \o <<Digit(n % 10)>>

\* snprintf(buf, size, ...): at most size-1 characters are stored
Snprintf(size, s) == SubSeq(s, 1, Min(Len(s), size - 1))

\* ------------------------------------------------------------------- style
\* lv_markdown_style_init
DefaultStyle ==
  [ body_font |-> "LV_FONT_DEFAULT", body_color |-> "black",
    heading_font |-> [i \in 0..5 |-> NULL_FONT],
    heading_color |-> [i \in 0..5 |-> "black"],
    bold_font |-> NULL_FONT, italic_font |-> NULL_FONT,
    bold_italic_font |-> NULL_FONT,
    code_font |-> NULL_FONT, code_color |-> "black",
    code_block_bg_color |-> "rgb245", code_block_corner_radius |-> 4,
    code_block_pad |-> 8,
    blockquote_border_color |-> "rgb200", blockquote_border_width |-> 3,
    blockquote_pad_left |-> 12,
    hr_color |-> "rgb200", hr_height |-> 1,
    paragraph_spacing |-> 10, line_spacing |-> 4, list_indent |-> 20,
    list_bullet |-> <<"*">> ]

\* A caller-built configuration: every optional font set, other metrics.
CustomStyle ==
  [ DefaultStyle EXCEPT
    !.body_font = "font_body", !.body_color = "blue",
    !.heading_font = [i \in 0..5 |-> IF i = 0 THEN "font_h1" ELSE NULL_FONT],
    !.heading_color = [i \in 0..5 |-> IF i = 0 THEN "red" ELSE "blue"],
    !.bold_font = "font_bold",
    !.code_font = "font_mono", !.code_color = "green",
    !.paragraph_spacing = 7, !.list_indent = 15,
    !.list_bullet = <<"-">> ]

Styles == {DefaultStyle, CustomStyle}

\* The argument of lv_markdown_set_style: NULL or a pointer to a style.
StyleArgs == {[isnull |-> TRUE, v |-> DefaultStyle]}
             \cup {[isnull |-> FALSE, v |-> s] : s \in Styles}

\* --------------------------------------------------- the LVGL object tree
\* lv_obj_create / lv_spangroup_create / lv_label_create: a new object under
\* `parent` with no local style (pad, margin 0; fonts and colours unset).
NewObj(kind, parent) ==
  [ kind |-> kind, parent |-> parent,
    font |-> "unset", color |-> "unset", line_space |-> 0,
    pad_left |-> 0, margin_top |-> 0, height |-> 0,
    bg_color |-> "unset", border_color |-> "unset", border_width |-> 0,
    radius |-> 0, pad_all |-> 0,
    spans |-> <<>>, text |-> <<>>, refreshed |-> FALSE ]

\* Variant of NewSpan whose span starts with a decoration of its own.
NewSpan_Underlined(text) ==
  [ text |-> text, font |-> "unset", color |-> "unset",
    decor |-> "underline", letter_space |-> NULL, bg_color |-> "unset" ]

\* lv_spangroup_add_span + lv_span_set_text: a span with an empty local style
\* (letter_space NULL: the property is not in the local style)
NewSpan(text) ==
  [ text |-> text, font |-> "unset", color |-> "unset",
    decor |-> "unset", letter_space |-> NULL, bg_color |-> "unset" ]

\* lv_obj_get_child_count
ChildCount(n, p) == Cardinality({i \in 1..Len(n) : n[i].parent = p})

\* lv_obj_get_parent
ParentOf(n, o) == IF o \in 1..Len(n) THEN n[o].parent
                  ELSE IF o = Widget THEN Screen ELSE NULL

\* The children of p, in creation order (lv_obj_get_child(p, k)).
RECURSIVE ChildrenFrom(_, _, _)
ChildrenFrom(n, p, i) ==
  IF i > Len(n) THEN <<>>
  ELSE (IF n[i].parent = p THEN <<i>> ELSE <<>>) \o ChildrenFrom(n, p, i + 1)
Children(n, p) == ChildrenFrom(n, p, 1)


\* --------------------------------------------------------- render context
\* md_render_ctx_t as lv_markdown_render initialises it
InitCtx ==
  [ widget |-> Widget, cur_span |-> NULL, cur_container |-> Widget,
    block_count |-> 0, block_depth |-> 0, fmt_flags |-> 0,
    list_stack |-> [i \in 0..(MD_LIST_MAX_DEPTH - 1) |->
                      [is_ordered |-> 0, is_tight |-> 0, counter |-> 0]],
    list_depth |-> 0, li_first_paragraph |-> 0,
    in_code_block |-> 0, code_buf |-> NULL_BUF,
    code_buf_len |-> 0, code_buf_cap |-> 0 ]

\* What a callback returns: the context, the tree, and the set of
\* list_stack indices the callback read or wrote.
R(c, n, idx) == [ctx |-> c, nodes |-> n, idx |-> idx]

HasBit(f, b) == (f \div b) % 2 = 1
SetBit(f, b) == IF HasBit(f, b) THEN f ELSE f + b
ClearBit(f, b) == IF HasBit(f, b) THEN f - b ELSE f

\* x > UINT32_MAX, for 0 <= x < 2^31
ExceedsU32(x) == x \div U32_LIMB >= U32_LIMB

\* while(new_cap < needed) new_cap *= 2;  (uint32_t; no wrap-around below 2^31)
RECURSIVE GrowCap(_, _)
GrowCap(new_cap, needed) ==
  IF new_cap < needed THEN GrowCap(new_cap * 2, needed) ELSE new_cap

\* code_buf_append (the reallocation succeeding)
code_buf_append(c, text) ==
  LET len == Len(text)
      needed == c.code_buf_len + len + 1
      new_cap == GrowCap(IF c.code_buf_cap = 0 THEN CODE_BUF_INIT_CAP
                         ELSE c.code_buf_cap, needed)
      old == IF c.code_buf = NULL_BUF THEN <<>> ELSE c.code_buf
  IN IF len = 0 THEN c
     \* if(len > UINT32_MAX - ctx->code_buf_len - 1) return;
     ELSE IF ExceedsU32(c.code_buf_len + len + 1) THEN c
     ELSE [c EXCEPT !.code_buf = old \o text,
                    !.code_buf_len = @ + len,
                    !.code_buf_cap = IF needed > @ THEN new_cap ELSE @]

\* Variant of FormatCode that also gives the run bold's letter spacing.
FormatCode_Spaced(span, s) ==
  [span EXCEPT !.font = IF s.code_font # NULL_FONT THEN s.code_font
                        ELSE s.body_font,
               !.color = s.code_color, !.letter_space = 1]

\* if(flags & MD_FMT_CODE): font and colour, then return
FormatCode(span, s) ==
  [span EXCEPT !.font = IF s.code_font # NULL_FONT THEN s.code_font
                        ELSE s.body_font,
               !.color = s.code_color]

\* Variant of FormatBoldItalic that tries italic_font before bold_font.
FormatBoldItalic_ItalicFirst(span, s) ==
  IF s.bold_italic_font # NULL_FONT
  THEN [span EXCEPT !.font = s.bold_italic_font]
  ELSE IF s.italic_font # NULL_FONT
  THEN [span EXCEPT !.font = s.italic_font, !.letter_space = 1]
  ELSE IF s.bold_font # NULL_FONT
  THEN [span EXCEPT !.font = s.bold_font, !.decor = "underline"]
  ELSE [span EXCEPT !.letter_space = 1, !.decor = "underline"]

\* if(is_bold && is_italic)
FormatBoldItalic(span, s) ==
  IF s.bold_italic_font # NULL_FONT
  THEN [span EXCEPT !.font = s.bold_italic_font]
  ELSE IF s.bold_font # NULL_FONT
  THEN [span EXCEPT !.font = s.bold_font, !.decor = "underline"]
  ELSE IF s.italic_font # NULL_FONT
  THEN [span EXCEPT !.font = s.italic_font, !.letter_space = 1]
  ELSE [span EXCEPT !.letter_space = 1, !.decor = "underline"]

\* Variant of FormatBold that keeps the faux bold next to bold_font.
FormatBold_AlwaysSpaced(span, s) ==
  IF s.bold_font # NULL_FONT
  THEN [span EXCEPT !.font = s.bold_font, !.letter_space = 1]
  ELSE [span EXCEPT !.letter_space = 1]

\* if(is_bold)
FormatBold(span, s) ==
  IF s.bold_font # NULL_FONT
  THEN [span EXCEPT !.font = s.bold_font]
  ELSE [span EXCEPT !.letter_space = 1]

\* Variant of FormatItalic that underlines next to italic_font.
FormatItalic_AlwaysUnderlined(span, s) ==
  IF s.italic_font # NULL_FONT
  THEN [span EXCEPT !.font = s.italic_font, !.decor = "underline"]
  ELSE [span EXCEPT !.decor = "underline"]

\* if(is_italic)
FormatItalic(span, s) ==
  IF s.italic_font # NULL_FONT
  THEN [span EXCEPT !.font = s.italic_font]
  ELSE [span EXCEPT !.decor = "underline"]

\* apply_span_formatting: the span's local style for the active fmt_flags
apply_span_formatting(span, flags, s) ==
  LET is_bold == HasBit(flags, MD_FMT_BOLD)
      is_italic == HasBit(flags, MD_FMT_ITALIC)
  IN IF HasBit(flags, MD_FMT_CODE) THEN FormatCode(span, s)
     ELSE IF is_bold /\ is_italic THEN FormatBoldItalic(span, s)
     ELSE IF is_bold THEN FormatBold(span, s)
     ELSE IF is_italic THEN FormatItalic(span, s)
     ELSE span

\* The text of the prefix span prepend_list_prefix builds for list_stack
\* entry `lvl`; <<>> when it adds no span.
PrefixText(lvl, s) ==
  IF lvl.is_ordered = 1
  THEN Snprintf(NUM_BUF_SIZE, Decimal(lvl.counter) \o <<".", " ">>)
  ELSE IF s.list_bullet # NULL_BUF /\ Len(s.list_bullet) < BULLET_BUF_SIZE - 2
       THEN s.list_bullet \o <<" ">>
       ELSE <<>>

\* prepend_list_prefix(sg, ctx, level_idx)
prepend_list_prefix(n, sg, c, s, level_idx) ==
  LET t == PrefixText(c.list_stack[level_idx], s)
  IN IF t = <<>> THEN n
     ELSE [n EXCEPT ![sg].spans = Append(@, NewSpan(t))]

\* apply_block_spacing(block, ctx)
\* Variant that counts the objects of the whole widget, not the siblings.
apply_block_spacing_global(n, block, s) ==
  IF Len(n) > 1
  THEN [n EXCEPT ![block].margin_top = s.paragraph_spacing]
  ELSE n

apply_block_spacing(n, block, s) ==
  IF ChildCount(n, ParentOf(n, block)) > 1
  THEN [n EXCEPT ![block].margin_top = s.paragraph_spacing]
  ELSE n


\* --------------------------------------------------------- md4c callbacks
\* An event of the stream md_parse delivers to the callbacks.
Ev(ev, type) == [ev |-> ev, type |-> type, is_tight |-> FALSE, start |-> 0,
                 level |-> 0, text |-> <<>>]

\* Variant without the depth check.
ListPushAllowed_NoCap(c) == TRUE

\* if(ctx->list_depth < MD_LIST_MAX_DEPTH)
ListPushAllowed(c) == c.list_depth < MD_LIST_MAX_DEPTH

\* md_enter_block, case MD_BLOCK_UL / MD_BLOCK_OL
EnterList(c, n, e) ==
  IF ListPushAllowed(c)
  THEN R([c EXCEPT !.list_stack[c.list_depth] =
                      [is_ordered |-> IF e.type = "OL" THEN 1 ELSE 0,
                       is_tight |-> IF e.is_tight THEN 1 ELSE 0,
                       counter |-> IF e.type = "OL" THEN e.start ELSE 0],
                   !.list_depth = @ + 1],
         n, {c.list_depth})
  ELSE R(c, n, {})

\* int32_t indent = ctx->data->style.list_indent * ctx->list_depth
ListIndent(c, s) == s.list_indent * c.list_depth

\* md_enter_block, case MD_BLOCK_LI
EnterLI(c, n, s) ==
  IF c.list_depth > 0
  THEN LET level_idx == c.list_depth - 1 IN
       IF c.list_stack[level_idx].is_tight = 1
       THEN LET sg0 == [NewObj("spangroup", c.cur_container) EXCEPT
                          !.font = s.body_font, !.color = s.body_color,
                          !.line_space = s.line_spacing,
                          !.pad_left = ListIndent(c, s)]
                n1 == Append(n, sg0)
                sg == Len(n1)
                n2 == prepend_list_prefix(n1, sg, c, s, level_idx)
                n3 == apply_block_spacing(n2, sg, s)
            IN R([c EXCEPT !.block_count = @ + 1, !.cur_span = sg],
                 n3, {level_idx})
       ELSE R([c EXCEPT !.li_first_paragraph = 1], n, {level_idx})
  ELSE R(c, n, {})

\* md_enter_block, case MD_BLOCK_CODE
EnterCode(c, n) ==
  R([c EXCEPT !.block_count = @ + 1, !.in_code_block = 1,
              !.code_buf = NULL_BUF, !.code_buf_len = 0, !.code_buf_cap = 0],
    n, {})

\* md_enter_block, case MD_BLOCK_QUOTE
EnterQuote(c, n, s) ==
  LET bq0 == [NewObj("blockquote", c.cur_container) EXCEPT
                !.border_color = s.blockquote_border_color,
                !.border_width = s.blockquote_border_width,
                !.pad_left = s.blockquote_pad_left]
      n1 == Append(n, bq0)
      bq == Len(n1)
      n2 == apply_block_spacing(n1, bq, s)
  IN R([c EXCEPT !.block_count = @ + 1, !.cur_container = bq], n2, {})

\* Variant that counts no paragraph or heading.
CountsAsTopLevel_Never(c) == FALSE

\* if(ctx->cur_container == ctx->widget) ctx->block_count++;
CountsAsTopLevel(c) == c.cur_container = c.widget

\* Variant without the fallback to body_font for an unset heading font.
BlockFont_NoFallback(e, s) ==
  LET level == e.level - 1
  IN IF e.type = "H" /\ level >= 0 /\ level < 6
     THEN s.heading_font[level] ELSE s.body_font

\* The font and colour md_enter_block gives a paragraph or heading.
BlockFont(e, s) ==
  LET level == e.level - 1
  IN IF e.type = "H" /\ level >= 0 /\ level < 6
        /\ s.heading_font[level] # NULL_FONT
     THEN s.heading_font[level] ELSE s.body_font

BlockColor(e, s) ==
  LET level == e.level - 1
  IN IF e.type = "H" /\ level >= 0 /\ level < 6
     THEN s.heading_color[level] ELSE s.body_color

\* md_enter_block, case MD_BLOCK_P / MD_BLOCK_H
EnterPH(c, n, s, e) ==
  LET c1 == IF CountsAsTopLevel(c) THEN [c EXCEPT !.block_count = @ + 1]
            ELSE c
      sg0 == [NewObj("spangroup", c.cur_container) EXCEPT
                !.font = BlockFont(e, s), !.color = BlockColor(e, s),
                !.line_space = s.line_spacing]
      n1 == Append(n, sg0)
      sg == Len(n1)
      in_list == c.list_depth > 0 /\ e.type = "P"
      prefix == in_list /\ c.li_first_paragraph # 0
      n2 == IF in_list THEN [n1 EXCEPT ![sg].pad_left = ListIndent(c, s)]
            ELSE n1
      n3 == IF prefix
            THEN prepend_list_prefix(n2, sg, c, s, c.list_depth - 1)
            ELSE n2
      n4 == apply_block_spacing(n3, sg, s)
      c2 == IF prefix THEN [c1 EXCEPT !.li_first_paragraph = 0] ELSE c1
  IN R([c2 EXCEPT !.cur_span = sg], n4,
       IF prefix THEN {c.list_depth - 1} ELSE {})

\* md_enter_block, case MD_BLOCK_HR
EnterHR(c, n, s) ==
  LET hr0 == [NewObj("hr", c.cur_container) EXCEPT
                !.height = s.hr_height, !.bg_color = s.hr_color]
      n1 == Append(n, hr0)
      hr == Len(n1)
  IN R([c EXCEPT !.block_count = @ + 1], apply_block_spacing(n1, hr, s), {})

\* md_enter_block
md_enter_block(c0, n, s, e) ==
  LET c == [c0 EXCEPT !.block_depth = @ + 1] IN
  CASE e.type = "DOC" -> R(c, n, {})
    [] e.type \in {"UL", "OL"} -> EnterList(c, n, e)
    [] e.type = "LI" -> EnterLI(c, n, s)
    [] e.type = "CODE" -> EnterCode(c, n)
    [] e.type = "QUOTE" -> EnterQuote(c, n, s)
    [] e.type \in {"P", "H"} -> EnterPH(c, n, s, e)
    [] e.type = "HR" -> EnterHR(c, n, s)
    [] OTHER -> R(c, n, {})


\* Variant of FinishSpan that refreshes and keeps the text target.
FinishSpan_KeepsTarget(c, n) ==
  R(c,
    IF c.cur_span \in 1..Len(n)
    THEN [n EXCEPT ![c.cur_span].refreshed = TRUE] ELSE n, {})

\* lv_spangroup_refresh(ctx->cur_span); ctx->cur_span = NULL;
FinishSpan(c, n) ==
  R([c EXCEPT !.cur_span = NULL],
    IF c.cur_span \in 1..Len(n)
    THEN [n EXCEPT ![c.cur_span].refreshed = TRUE] ELSE n, {})

\* md_leave_block, case MD_BLOCK_UL / MD_BLOCK_OL
LeaveList(c, n) ==
  IF c.list_depth > 0 THEN R([c EXCEPT !.list_depth = @ - 1], n, {})
  ELSE R(c, n, {})

\* ctx->list_stack[level_idx].counter++  (uint32_t; md4c's start numbers have
\* at most nine digits, so no wrap-around is in reach)
CounterInc(v) == v + 1

\* md_leave_block, case MD_BLOCK_LI
LeaveLI(c, n) ==
  IF c.list_depth > 0
  THEN LET level_idx == c.list_depth - 1
           f == IF c.list_stack[level_idx].is_tight = 1 /\ c.cur_span # NULL
                THEN FinishSpan(c, n) ELSE R(c, n, {})
           c2 == IF c.list_stack[level_idx].is_ordered = 1
                 THEN [f.ctx EXCEPT !.list_stack[level_idx].counter =
                                       CounterInc(@)]
                 ELSE f.ctx
       IN R(c2, f.nodes, {level_idx})
  ELSE R(c, n, {})

\* Variant that strips nothing.
StripNewline_Never(buf) == buf

\* The label text md_leave_block gives a code block: the accumulated buffer
\* with one trailing newline stripped.
StripNewline(buf) ==
  IF Len(buf) > 0 /\ buf[Len(buf)] = "\n" THEN SubSeq(buf, 1, Len(buf) - 1)
  ELSE buf

\* Variant of LeaveCode that does not free the buffer.
LeaveCode_KeepsBuffer(c, n, s) ==
  LET cont0 == [NewObj("code_block", c.cur_container) EXCEPT
                  !.bg_color = s.code_block_bg_color,
                  !.radius = s.code_block_corner_radius,
                  !.pad_all = s.code_block_pad]
      n1 == Append(n, cont0)
      container == Len(n1)
      n2 == apply_block_spacing(n1, container, s)
      label == [NewObj("label", container) EXCEPT
                  !.text = StripNewline(c.code_buf),
                  !.font = IF s.code_font # NULL_FONT THEN s.code_font
                           ELSE s.body_font,
                  !.color = s.code_color]
      n3 == IF c.code_buf # NULL_BUF /\ c.code_buf_len > 0
            THEN Append(n2, label) ELSE n2
  IN R([c EXCEPT !.in_code_block = 0], n3, {})

\* md_leave_block, case MD_BLOCK_CODE
LeaveCode(c, n, s) ==
  LET cont0 == [NewObj("code_block", c.cur_container) EXCEPT
                  !.bg_color = s.code_block_bg_color,
                  !.radius = s.code_block_corner_radius,
                  !.pad_all = s.code_block_pad]
      n1 == Append(n, cont0)
      container == Len(n1)
      n2 == apply_block_spacing(n1, container, s)
      label == [NewObj("label", container) EXCEPT
                  !.text = StripNewline(c.code_buf),
                  !.font = IF s.code_font # NULL_FONT THEN s.code_font
                           ELSE s.body_font,
                  !.color = s.code_color]
      n3 == IF c.code_buf # NULL_BUF /\ c.code_buf_len > 0
            THEN Append(n2, label) ELSE n2
  IN R([c EXCEPT !.code_buf = NULL_BUF, !.code_buf_len = 0,
                 !.code_buf_cap = 0, !.in_code_block = 0], n3, {})

\* Variant that returns to the root instead of the parent.
LeaveQuote_ToRoot(c, n) == R([c EXCEPT !.cur_container = c.widget], n, {})

\* md_leave_block, case MD_BLOCK_QUOTE
LeaveQuote(c, n) ==
  R([c EXCEPT !.cur_container = ParentOf(n, c.cur_container)], n, {})

\* md_leave_block
md_leave_block(c0, n, s, e) ==
  LET c == [c0 EXCEPT !.block_depth = @ - 1] IN
  CASE e.type \in {"UL", "OL"} -> LeaveList(c, n)
    [] e.type = "LI" -> LeaveLI(c, n)
    [] e.type = "CODE" -> LeaveCode(c, n, s)
    [] e.type = "QUOTE" -> LeaveQuote(c, n)
    [] e.type \in {"P", "H"} ->
         IF c.cur_span # NULL THEN FinishSpan(c, n) ELSE R(c, n, {})
    [] OTHER -> R(c, n, {})

\* Variant in which a link counts as strong.
FmtBit_LinkIsBold(type) ==
  CASE type \in {"STRONG", "A"} -> MD_FMT_BOLD
    [] type = "EM" -> MD_FMT_ITALIC
    [] type = "CODE" -> MD_FMT_CODE
    [] OTHER -> 0

\* The formatting bit of a span type (0: none, the default case).
FmtBit(type) ==
  CASE type = "STRONG" -> MD_FMT_BOLD
    [] type = "EM" -> MD_FMT_ITALIC
    [] type = "CODE" -> MD_FMT_CODE
    [] OTHER -> 0

\* md_enter_span
md_enter_span(c, n, e) ==
  IF FmtBit(e.type) # 0
  THEN R([c EXCEPT !.fmt_flags = SetBit(@, FmtBit(e.type))], n, {})
  ELSE R(c, n, {})

\* Variant of md_leave_span that leaves the flags as they are.
md_leave_span_keeps_flags(c, n, e) == R(c, n, {})

\* md_leave_span
md_leave_span(c, n, e) ==
  IF FmtBit(e.type) # 0
  THEN R([c EXCEPT !.fmt_flags = ClearBit(@, FmtBit(e.type))], n, {})
  ELSE R(c, n, {})

\* Variant of md_text that puts the new run before the block's other runs.
md_text_prepends(c, n, s, e) ==
  IF c.in_code_block # 0 THEN R(code_buf_append(c, e.text), n, {})
  ELSE IF c.cur_span = NULL THEN R(c, n, {})
  ELSE R(c, [n EXCEPT ![c.cur_span].spans =
                        <<apply_span_formatting(NewSpan(e.text),
                                                c.fmt_flags, s)>> \o @], {})

\* Variant of md_text that looks for the text block before the code block.
md_text_target_first(c, n, s, e) ==
  IF c.cur_span # NULL
  THEN R(c, [n EXCEPT ![c.cur_span].spans = Append(@, NewSpan(e.text))], {})
  ELSE IF c.in_code_block # 0 THEN R(code_buf_append(c, e.text), n, {})
  ELSE R(c, n, {})

\* md_text (span creation and the temporary copy succeeding)
md_text(c, n, s, e) ==
  IF c.in_code_block # 0 THEN R(code_buf_append(c, e.text), n, {})
  ELSE IF c.cur_span = NULL THEN R(c, n, {})
  ELSE LET span == NewSpan(e.text)
           styled == IF c.fmt_flags # 0
                     THEN apply_span_formatting(span, c.fmt_flags, s)
                     ELSE span
       IN R(c, [n EXCEPT ![c.cur_span].spans = Append(@, styled)], {})

\* The callback md_parse invokes for event e.
Dispatch(c, n, s, e) ==
  CASE e.ev = "enter_block" -> md_enter_block(c, n, s, e)
    [] e.ev = "leave_block" -> md_leave_block(c, n, s, e)
    [] e.ev = "enter_span" -> md_enter_span(c, n, e)
    [] e.ev = "leave_span" -> md_leave_span(c, n, e)
    [] e.ev = "text" -> md_text(c, n, s, e)


\* ------------------------------------------------------------------ state
VARIABLES
  data,     \* lv_markdown_data_t: text, text_ptr, is_static, style, block_count
  str,      \* the C string text_ptr points at: "NONE", "EMPTY" ("") or "MD"
  nodes,    \* the objects below the widget, in creation order
  ctx,      \* md_render_ctx_t of the render pass in progress (or the last one)
  eff,      \* what the last callback did: the list_stack indices it read
            \* or wrote, the objects and spans it created, its change of
            \* ctx.block_count
  pc,       \* "idle": no call in progress; "parse": inside md_parse;
            \* "stopped": the process crashed; "hang": a call never returns
  doc,      \* the event stream of the current markdown text
  pos,      \* number of events of doc md_parse has delivered
  open,     \* md4c's stack of open blocks and spans (their enter events)
  used,     \* budgeted events of doc
  spine,    \* lists of doc's leading spine of directly nested lists
  qstack,   \* per open blockquote: the container current before it opened
            \* and the container object it created
  lim,      \* the bounds on the documents md4c is given (fixed by Init)
  last_op,  \* the last API call, its argument, and whether the widget had
            \* children before it
  want,     \* the last text argument and the last non-NULL style argument
  mem,      \* the heap: text copies and code buffers allocated and not
            \* yet freed, who freed the last code buffer, the first misuse
            \* of lv_free or of a NULL object handle if there was one, and
            \* whether freed memory was read
  other     \* a plain lv_obj_create object with user data NULL and a child

vars == <<data, str, nodes, ctx, eff, pc, doc, pos, open, used, spine, qstack,
          lim, last_op, want, mem, other>>

\* ------------------------------------------- the tokenizer (md4c, md_parse)
HLevels == 1..6
Starts == {1, 9}
InlineTexts == {<<"a">>, <<"\n">>}
CodeTexts == {<<"a">>, <<"\n">>}
SpanTypes == {"STRONG", "EM", "CODE"}
\* Span types md_enter_span and md_leave_span have no case for.
OtherSpanTypes == {"A", "IMG"}

ListEvents ==
  {[Ev("enter_block", "UL") EXCEPT !.is_tight = t] : t \in BOOLEAN}
  \cup {[Ev("enter_block", "OL") EXCEPT !.is_tight = t, !.start = st] :
          t \in BOOLEAN, st \in Starts}

\* Block-enter events md4c may emit inside a container block.
BlockEvents(allowP) ==
  (IF allowP THEN {Ev("enter_block", "P")} ELSE {})
  \cup {[Ev("enter_block", "H") EXCEPT !.level = l] : l \in HLevels}
  \cup {Ev("enter_block", "HR"), Ev("enter_block", "CODE"),
        Ev("enter_block", "QUOTE")}
  \cup ListEvents

TextEvents(texts) == {[Ev("text", "NORMAL") EXCEPT !.text = t] : t \in texts}

InlineEvents ==
  TextEvents(InlineTexts) \cup {Ev("enter_span", t) : t \in SpanTypes}

LeaveOf(e) ==
  [e EXCEPT !.ev = IF e.ev = "enter_span" THEN "leave_span" ELSE "leave_block"]

\* A choice of the tokenizer: the event, what it costs of the budget, and
\* the spine length after it.
Choice(e, cost, sp) == [e |-> e, cost |-> cost, sp |-> sp]

\* The events md4c may emit next, given its open stack `o`, the stream `d`
\* emitted so far, the budget used `u`, the spine length `sp` and the bounds
\* `lm` (lm.more_spans: the span types it emits besides SpanTypes).  A spine (lm.spine lists, each the first child of the previous
\* list's item, all of the first one's kind) is emitted whole and outside
\* the budget.
TokenizerNext(o, d, u, sp, lm) ==
  IF d = <<>> THEN {Choice(Ev("enter_block", "DOC"), 0, 0)}
  ELSE IF o = <<>> THEN {}
  ELSE
    LET top == o[Len(o)]
        last == d[Len(d)]
        isBlock == top.ev = "enter_block"
        inList == isBlock /\ top.type \in {"UL", "OL"}
        tightLI == isBlock /\ top.type = "LI" /\ o[Len(o) - 1].is_tight
        \* the stream so far is DOC and sp (list, item) pairs
        pureSpine == Len(d) = 1 + 2 * sp
        \* ... followed by the enter event of the spine's next list
        spineItem == sp > 0 /\ Len(d) = 2 * sp
        inSpine == (sp > 0 /\ sp < lm.spine /\ pureSpine) \/ spineItem
        budget == IF sp = 0 THEN u < lm.events
                  ELSE u < lm.spine_events
                       /\ Len(o) >= 1 + 2 * lm.spine - lm.reach
        container == isBlock /\ top.type \in {"DOC", "QUOTE", "LI"}
        inline == top.ev = "enter_span"
                  \/ (isBlock /\ top.type \in {"P", "H"}) \/ tightLI
        spineEv ==
          IF pureSpine /\ sp < lm.spine
          THEN {Choice(e, 0, sp + 1) :
                  e \in (IF sp = 0 THEN ListEvents ELSE {d[2]})}
          ELSE {}
        itemEv ==
          IF inList /\ (spineItem \/ budget)
          THEN {Choice(Ev("enter_block", "LI"), IF spineItem THEN 0 ELSE 1, sp)}
          ELSE {}
        freeEv ==
          IF budget /\ ~inSpine
          THEN (IF container THEN BlockEvents(~tightLI) ELSE {})
               \cup (IF inline
                     THEN InlineEvents
                          \cup {Ev("enter_span", t) : t \in lm.more_spans}
                     ELSE {})
               \cup (IF isBlock /\ top.type = "CODE"
                     THEN TextEvents(CodeTexts) ELSE {})
          ELSE {}
        mayLeave ==
          /\ ~inSpine
          /\ inList => (last.ev = "leave_block" /\ last.type = "LI")
          /\ (top.ev = "enter_span" \/ top.type = "P") => last # top
    IN spineEv \cup itemEv \cup {Choice(e, 1, sp) : e \in freeEv}
       \cup (IF mayLeave THEN {Choice(LeaveOf(top), 0, sp)} ELSE {})

\* md4c's open stack after event e.
OpenAfter(o, e) ==
  IF e.ev \in {"enter_block", "enter_span"} THEN Append(o, e)
  ELSE IF e.ev \in {"leave_block", "leave_span"} THEN SubSeq(o, 1, Len(o) - 1)
  ELSE o


\* -------------------------------------------------------------- public API
\* A text argument: NULL, "" or a non-empty markdown string.
TextArgs == {"NULL", "EMPTY", "MD"}

NoEffect == [idx |-> {}, nodes |-> 0, spans |-> 0, count |-> 0]

RECURSIVE SpansFrom(_, _)
SpansFrom(n, i) == IF i > Len(n) THEN 0 ELSE Len(n[i].spans) + SpansFrom(n, i + 1)
\* Number of spans of all span groups.
TotalSpans(n) == SpansFrom(n, 1)

\* What a caller can observe of the widget before a call of set_style.
Before(d, s, n) ==
  [text |-> d.text, text_ptr |-> d.text_ptr, is_static |-> d.is_static,
   style |-> d.style, str |-> s, children |-> ChildCount(n, Widget),
   block_count |-> d.block_count]

\* The same for the calls where it is not recorded.
NoBefore == Before([text |-> "NULL", text_ptr |-> "NULL", is_static |-> 0,
                    style |-> DefaultStyle, block_count |-> 0], "NONE", <<>>)

\* The heap with no text copy and no code buffer allocated.
NoAllocation ==
  [live |-> 0, fault |-> "none", bufs |-> 0, freed_by |-> "none",
   stale_read |-> FALSE]

\* lv_malloc of a text copy (taken to succeed)
lv_malloc(m) == [m EXCEPT !.live = @ + 1]

\* lv_free(p): p is a text copy ("heap"), or memory of the caller
\* ("caller"), which the allocator does not own.
lv_free(m, p) ==
  IF m.fault # "none" THEN m
  ELSE IF p = "heap"
  THEN IF m.live > 0 THEN [m EXCEPT !.live = @ - 1]
       ELSE [m EXCEPT !.fault = "double free"]
  ELSE [m EXCEPT !.fault = "free of caller memory"]

\* if(data->text != NULL) lv_free(data->text);
FreeText(m, p) == IF p # "NULL" THEN lv_free(m, p) ELSE m

\* lv_obj_create(parent); lv_obj_set_user_data(obj, NULL); with one child
PlainObject == [user_data |-> "NULL", children |-> 1]

\* lv_markdown_create: calloc'ed data, lv_markdown_style_init, no children
Init ==
  /\ data = [text |-> "NULL", text_ptr |-> "NULL", is_static |-> 0,
             style |-> DefaultStyle, block_count |-> 0]
  /\ str = "NONE"
  /\ nodes = <<>>
  /\ ctx = InitCtx
  /\ eff = NoEffect
  /\ pc = "idle"
  /\ doc = <<>>
  /\ pos = 0
  /\ open = <<>>
  /\ used = 0
  /\ spine = 0
  /\ qstack = <<>>
  /\ want = [text |-> "NULL", style |-> DefaultStyle]
  /\ lim = [events |-> MaxEvents, spine |-> 0, spine_events |-> 0,
            reach |-> 0, more_spans |-> {}]
  /\ last_op = [op |-> "create", arg |-> "NONE", had |-> FALSE,
                before |-> NoBefore]
  /\ mem = NoAllocation
  /\ other = PlainObject

\* Variants of lv_markdown_clear that each leave one thing behind: the
\* children (no lv_obj_clean), the text pointer, the block count.
lv_markdown_clear_keeps_children(d, n) ==
  [data |-> [d EXCEPT !.text = "NULL", !.text_ptr = "NULL",
                      !.is_static = 0, !.block_count = 0],
   nodes |-> n, freed |-> d.text]

lv_markdown_clear_keeps_ptr(d, n) ==
  [data |-> [d EXCEPT !.text = "NULL", !.is_static = 0, !.block_count = 0],
   nodes |-> <<>>, freed |-> d.text]

lv_markdown_clear_keeps_static(d, n) ==
  [data |-> [d EXCEPT !.text = "NULL", !.text_ptr = "NULL",
                      !.block_count = 0],
   nodes |-> <<>>, freed |-> d.text]

lv_markdown_clear_keeps_count(d, n) ==
  [data |-> [d EXCEPT !.text = "NULL", !.text_ptr = "NULL", !.is_static = 0],
   nodes |-> <<>>, freed |-> d.text]

\* lv_markdown_clear: lv_obj_clean, free the owned copy (`freed`: the
\* pointer data->text it tests and frees), reset the fields
lv_markdown_clear(d, n) ==
  [data |-> [d EXCEPT !.text = "NULL", !.text_ptr = "NULL",
                      !.is_static = 0, !.block_count = 0],
   nodes |-> <<>>, freed |-> d.text]

\* lv_markdown_render's early return:
\* if(data->text_ptr == NULL || data->text_ptr[0] == '\0') return;
RenderRuns(d, s) == d.text_ptr # "NULL" /\ s # "EMPTY"

\* lv_markdown_render up to the call of md_parse: a fresh context.  `fresh`
\* tells whether the text is a new one (its event stream not yet known).
StartRender(d, s, fresh) ==
  /\ pc' = IF RenderRuns(d, s) THEN "parse" ELSE "idle"
  /\ ctx' = InitCtx
  /\ eff' = NoEffect
  /\ qstack' = <<>>
  /\ pos' = 0
  /\ open' = <<>>
  /\ doc' = IF fresh THEN <<>> ELSE doc
  /\ used' = IF fresh THEN 0 ELSE used
  /\ spine' = IF fresh THEN 0 ELSE spine

\* Variant of set_text_data that stores the caller's pointer, no copy made.
set_text_data_no_copy(d) ==
  [d EXCEPT !.text_ptr = "caller", !.is_static = 0]

\* lv_markdown_set_text after the clear, for a non-NULL text: the copy in a
\* new allocation ("heap"), text_ptr pointing to it.
set_text_data(d) ==
  [d EXCEPT !.text = "heap", !.text_ptr = "heap", !.is_static = 0]

\* lv_markdown_set_text_static after the clear, for a non-NULL text: the
\* caller's pointer stored.
set_text_static_data(d) ==
  [d EXCEPT !.text_ptr = "caller", !.is_static = 1]

\* lv_markdown_set_text(obj, t)
SetTextTo(t) ==
  /\ pc = "idle"
  /\   LET cl == lv_markdown_clear(data, nodes)
           d1 == IF t = "NULL" THEN cl.data
                 ELSE set_text_data(cl.data)
           s1 == IF t = "NULL" THEN "NONE" ELSE t
       IN /\ data' = d1
          /\ str' = s1
          /\ nodes' = cl.nodes
          /\ StartRender(d1, s1, TRUE)
          /\ mem' = IF t = "NULL" THEN FreeText(mem, cl.freed)
                    ELSE lv_malloc(FreeText(mem, cl.freed))
          /\ last_op' = [op |-> "set_text", arg |-> t, had |-> nodes # <<>>,
                         before |-> NoBefore]
          /\ want' = [want EXCEPT !.text = t]
          /\ UNCHANGED <<lim, other>>

SetText == \E t \in TextArgs : SetTextTo(t)

\* lv_markdown_set_text_static(obj, t)
SetTextStatic ==
  /\ pc = "idle"
  /\ \E t \in TextArgs :
       LET cl == lv_markdown_clear(data, nodes)
           d1 == IF t = "NULL" THEN cl.data
                 ELSE set_text_static_data(cl.data)
           s1 == IF t = "NULL" THEN "NONE" ELSE t
       IN /\ data' = d1
          /\ str' = s1
          /\ nodes' = cl.nodes
          /\ StartRender(d1, s1, TRUE)
          /\ mem' = FreeText(mem, cl.freed)
          /\ last_op' = [op |-> "set_text_static", arg |-> t,
                         had |-> nodes # <<>>, before |-> NoBefore]
          /\ want' = [want EXCEPT !.text = t]
          /\ UNCHANGED <<lim, other>>

\* Variant that takes a NULL style for a style.
StyleIgnored_Never(a) == FALSE

\* if(data == NULL || style == NULL) return;  (data is the widget's)
StyleIgnored(a) == a.isnull

\* Variant of set_style_data that empties the widget with lv_markdown_clear
\* (which frees and forgets the text) instead of lv_obj_clean.
set_style_data_via_clear(d, v) ==
  [d EXCEPT !.style = v, !.text = "NULL", !.text_ptr = "NULL",
            !.is_static = 0, !.block_count = 0]

\* lv_markdown_set_style on a widget with text, before the re-render: the
\* style copied in, the block count reset, text, text_ptr and is_static
\* saved and restored.
set_style_data(d, v) == [d EXCEPT !.style = v, !.block_count = 0]

\* lv_markdown_set_style(obj, a)
SetStyle ==
  /\ pc = "idle"
  /\ UNCHANGED <<lim, mem, other>>
  /\ \E a \in StyleArgs :
       /\ last_op' = [op |-> "set_style",
                      arg |-> IF a.isnull THEN "NULL" ELSE "STYLE",
                      had |-> nodes # <<>>,
                      before |-> Before(data, str, nodes)]
       /\ want' = IF a.isnull THEN want ELSE [want EXCEPT !.style = a.v]
       /\ IF StyleIgnored(a)
          THEN UNCHANGED <<data, str, nodes, ctx, eff, pc, doc, pos, open,
                           used, spine, qstack>>
          ELSE IF data.text_ptr # "NULL"
          THEN /\ data' = set_style_data(data, a.v)
               /\ nodes' = <<>>
               /\ str' = str
               /\ StartRender(data', str, FALSE)
          ELSE /\ data' = [data EXCEPT !.style = a.v]
               /\ UNCHANGED <<str, nodes, ctx, eff, pc, doc, pos, open,
                              used, spine, qstack>>

\* The heap after a callback took the context from c to c2 on event e:
\* code_buf_append's lv_realloc(NULL, new_cap) allocates the code buffer
\* (a later lv_realloc keeps it one buffer), the code-block leave handler
\* frees it with   if(ctx->code_buf != NULL) lv_free(ctx->code_buf);
CodeBufHeap(m, c, e, c2) ==
  IF e.ev = "text" /\ c.code_buf = NULL_BUF /\ c2.code_buf # NULL_BUF
  THEN [m EXCEPT !.bufs = @ + 1]
  ELSE IF e.ev = "leave_block" /\ e.type = "CODE" /\ c.code_buf # NULL_BUF
  THEN [m EXCEPT !.bufs = @ - 1, !.freed_by = "leave"]
  ELSE m

\* md_parse delivering its next event to the callback of kind `kind`: the
\* next event of the known stream, or (a new text) one the grammar allows.
Deliver(kind) ==
  /\ pc = "parse"
  /\ \E ch \in (IF pos < Len(doc) THEN {Choice(doc[pos + 1], 0, spine)}
                ELSE TokenizerNext(open, doc, used, spine, lim)) :
       /\ ch.e.ev = kind
       /\ LET r == Dispatch(ctx, nodes, data.style, ch.e)
          IN /\ ctx' = r.ctx
             /\ nodes' = r.nodes
             /\ eff' = [idx |-> r.idx,
                        nodes |-> Len(r.nodes) - Len(nodes),
                        spans |-> TotalSpans(r.nodes) - TotalSpans(nodes),
                        count |-> r.ctx.block_count - ctx.block_count]
             /\ mem' = CodeBufHeap(mem, ctx, ch.e, r.ctx)
       /\ qstack' =
            IF ch.e.type = "QUOTE" /\ ch.e.ev = "enter_block"
            THEN Append(qstack, [before |-> ctx.cur_container,
                                 node |-> Len(nodes) + 1])
            ELSE IF ch.e.type = "QUOTE" /\ ch.e.ev = "leave_block"
            THEN SubSeq(qstack, 1, Len(qstack) - 1)
            ELSE qstack
       /\ doc' = IF pos < Len(doc) THEN doc ELSE Append(doc, ch.e)
       /\ pos' = pos + 1
       /\ open' = OpenAfter(open, ch.e)
       /\ used' = used + ch.cost
       /\ spine' = ch.sp
       /\ UNCHANGED <<data, str, pc, lim, last_op, want, other>>

EnterBlock == Deliver("enter_block")
LeaveBlock == Deliver("leave_block")
EnterSpan == Deliver("enter_span")
LeaveSpan == Deliver("leave_span")
Text == Deliver("text")

\* Variant of the cleanup after md_parse that frees nothing.
render_cleanup_none(m, c) == m

\* lv_markdown_render after md_parse:
\*   if(ctx.code_buf != NULL) { lv_free(ctx.code_buf); }
render_cleanup(m, c) ==
  IF c.code_buf # NULL_BUF
  THEN [m EXCEPT !.bufs = @ - 1, !.freed_by = "cleanup"]
  ELSE m

\* lv_markdown_render after md_parse returned: free a left-over code buffer,
\* store the block count; the context goes out of scope.
RenderEnd ==
  /\ pc = "parse"
  /\ pos > 0
  /\ open = <<>>
  /\ data' = [data EXCEPT !.block_count = ctx.block_count]
  /\ mem' = render_cleanup(mem, ctx)
  /\ pc' = "idle"
  /\ ctx' = InitCtx
  /\ eff' = NoEffect
  /\ UNCHANGED <<str, nodes, doc, pos, open, used, spine, qstack, lim,
                 last_op, want, other>>

\* Variant of lv_markdown_delete_cb that frees the data only.
lv_markdown_delete_cb_keeps_text(d, m) == m

\* lv_markdown_delete_cb: if(data->text != NULL) lv_free(data->text);
lv_markdown_delete_cb(d, m) == FreeText(m, d.text)

\* lv_obj_delete(obj) of the widget: LV_EVENT_DELETE runs
\* lv_markdown_delete_cb, the children and the object go.  No call on the
\* widget follows.
Delete ==
  /\ pc = "idle"
  /\ mem' = lv_markdown_delete_cb(data, mem)
  /\ pc' = "deleted"
  /\ nodes' = <<>>
  /\ last_op' = [op |-> "delete", arg |-> str, had |-> nodes # <<>>,
                 before |-> Before(data, str, nodes)]
  /\ UNCHANGED <<data, str, ctx, eff, doc, pos, open, used, spine, qstack,
                 lim, want, other>>

\* Variant that takes every object for one with markdown data.
NoData_Never(o) == FALSE

\* data = lv_obj_get_user_data(obj); if(data == NULL) return;
NoData(o) == o.user_data = "NULL"

\* A setter called on the plain object: lv_markdown_set_text,
\* lv_markdown_set_text_static or lv_markdown_set_style (with a style).
\* Past the guard the first thing the text setters do to the object is
\* lv_obj_clean.
OtherSetter(op) ==
  /\ pc = "idle"
  /\ other' = IF NoData(other) \/ op = "set_style" THEN other
              ELSE [other EXCEPT !.children = 0]
  /\ last_op' = [op |-> "other", arg |-> op, had |-> other.children > 0,
                 before |-> NoBefore]
  /\ UNCHANGED <<data, str, nodes, ctx, eff, pc, doc, pos, open, used, spine,
                 qstack, lim, want, mem>>

OtherSetText == OtherSetter("set_text")
OtherSetTextStatic == OtherSetter("set_text_static")
OtherSetStyle == OtherSetter("set_style")

Next ==
  \/ SetText
  \/ SetTextStatic
  \/ SetStyle
  \/ Delete
  \/ OtherSetText
  \/ OtherSetTextStatic
  \/ OtherSetStyle
  \/ EnterBlock
  \/ LeaveBlock
  \/ EnterSpan
  \/ LeaveSpan
  \/ Text
  \/ RenderEnd

Spec == Init /\ [][Next]_vars

\* One render pass: lv_markdown_set_text with a markdown text on the widget
\* as created, over larger documents and documents with a list spine.
InitPass ==
  /\ data = [text |-> "NULL", text_ptr |-> "NULL", is_static |-> 0,
             style |-> DefaultStyle, block_count |-> 0]
  /\ str = "NONE"
  /\ nodes = <<>>
  /\ ctx = InitCtx
  /\ eff = NoEffect
  /\ pc = "idle"
  /\ doc = <<>>
  /\ pos = 0
  /\ open = <<>>
  /\ used = 0
  /\ spine = 0
  /\ qstack = <<>>
  /\ want = [text |-> "NULL", style |-> DefaultStyle]
  /\ lim = [events |-> MaxPassEvents, spine |-> MaxSpine,
            spine_events |-> MaxSpineEvents, reach |-> SpineReach,
            more_spans |-> {}]
  /\ last_op = [op |-> "create", arg |-> "NONE", had |-> FALSE,
                before |-> NoBefore]
  /\ mem = NoAllocation
  /\ other = PlainObject

PassStart == last_op.op = "create" /\ SetTextTo("MD")

NextPass ==
  \/ PassStart
  \/ EnterBlock
  \/ LeaveBlock
  \/ EnterSpan
  \/ LeaveSpan
  \/ Text
  \/ RenderEnd

SpecPass == InitPass /\ [][NextPass]_vars

\* code_buf_append when lv_realloc returns NULL: if(new_buf == NULL) return;
\* Without growth nothing is allocated and the text is appended.
code_buf_append_no_mem(c, text) ==
  LET len == Len(text)
      needed == c.code_buf_len + len + 1
  IN IF len > 0 /\ ~ExceedsU32(needed) /\ needed > c.code_buf_cap THEN c
     ELSE code_buf_append(c, text)

\* The allocations of md_text that can fail: the span
\* (lv_spangroup_add_span) and the temporary copy (lv_malloc).
TextAllocations == {"span", "tmp"}

\* md_text when allocation `which` returns NULL: if(span == NULL) return 0;
\* if(tmp == NULL) return 0;  (the span added before stays, without text)
md_text_no_mem(c, n, s, e, which) ==
  IF c.in_code_block # 0 THEN R(code_buf_append_no_mem(c, e.text), n, {})
  ELSE IF c.cur_span = NULL THEN R(c, n, {})
  ELSE IF which = "span" THEN R(c, n, {})
  ELSE R(c, [n EXCEPT ![c.cur_span].spans = Append(@, NewSpan(<<>>))], {})

\* The handle a block callback keeps of an object it asked for, when
\* lv_obj_create, lv_spangroup_create and lv_label_create return NULL: the
\* objects of the successful callback are those after the first `have`.
HandleNoMem(h, have) == IF h > have THEN NULL ELSE h

\* md_enter_block and md_leave_block when object creation returns NULL.
\* Neither tests the handle: it goes to lv_obj_set_width or
\* lv_obj_remove_style_all (`null_used`) and is stored as cur_span or
\* cur_container; everything else is done as with a valid object.
BlockNoMem(c, n, s, e) ==
  LET r == Dispatch(c, n, s, e)
  IN [ctx |-> [r.ctx EXCEPT !.cur_span = HandleNoMem(@, Len(n)),
                            !.cur_container = HandleNoMem(@, Len(n))],
      nodes |-> n,
      idx |-> r.idx,
      null_used |-> Len(r.nodes) > Len(n)]

\* md_parse delivering its next event while the allocator is exhausted.
\* A callback that passes a NULL handle on has undefined behaviour: the
\* pass stops there (`stop`) or goes on with what the callback stored.
DeliverNoMem(kind) ==
  /\ pc = "parse"
  /\ \E ch \in (IF pos < Len(doc) THEN {Choice(doc[pos + 1], 0, spine)}
                ELSE TokenizerNext(open, doc, used, spine, lim)) :
     \E which \in TextAllocations, stop \in BOOLEAN :
       /\ ch.e.ev = kind
       /\ LET r == IF kind = "text"
                   THEN [md_text_no_mem(ctx, nodes, data.style, ch.e, which)
                           EXCEPT !.idx = {}] @@ [null_used |-> FALSE]
                   ELSE BlockNoMem(ctx, nodes, data.style, ch.e)
          IN /\ kind # "text" => r.null_used
             /\ stop => r.null_used
             /\ ctx' = r.ctx
             /\ nodes' = r.nodes
             /\ eff' = [idx |-> r.idx,
                        nodes |-> Len(r.nodes) - Len(nodes),
                        spans |-> TotalSpans(r.nodes) - TotalSpans(nodes),
                        count |-> r.ctx.block_count - ctx.block_count]
             /\ mem' = LET m == CodeBufHeap(mem, ctx, ch.e, r.ctx)
                       IN IF r.null_used /\ m.fault = "none"
                          THEN [m EXCEPT !.fault = "NULL object styled"]
                          ELSE m
             /\ pc' = IF stop THEN "stopped" ELSE pc
       /\ qstack' =
            IF ch.e.type = "QUOTE" /\ ch.e.ev = "enter_block"
            THEN Append(qstack, [before |-> ctx.cur_container, node |-> NULL])
            ELSE IF ch.e.type = "QUOTE" /\ ch.e.ev = "leave_block"
            THEN SubSeq(qstack, 1, Len(qstack) - 1)
            ELSE qstack
       /\ doc' = IF pos < Len(doc) THEN doc ELSE Append(doc, ch.e)
       /\ pos' = pos + 1
       /\ open' = OpenAfter(open, ch.e)
       /\ used' = used + ch.cost
       /\ spine' = ch.sp
       /\ UNCHANGED <<data, str, lim, last_op, want, other>>

EnterBlockNoMem == DeliverNoMem("enter_block")
LeaveBlockNoMem == DeliverNoMem("leave_block")
TextNoMem == DeliverNoMem("text")

\* md_parse returning before the end of the document (its own allocation
\* failed): no leave callback is made for the blocks still open, and
\* lv_markdown_render goes on with its cleanup and the block count.
ParseAbort ==
  /\ pc = "parse"
  /\ open # <<>> \/ pos = 0
  /\ data' = [data EXCEPT !.block_count = ctx.block_count]
  /\ mem' = render_cleanup(mem, ctx)
  /\ pc' = "idle"
  /\ ctx' = InitCtx
  /\ eff' = NoEffect
  /\ UNCHANGED <<str, nodes, doc, pos, open, used, spine, qstack, lim,
                 last_op, want, other>>

\* One render pass during which allocations can fail.
InitNoMem ==
  /\ data = [text |-> "NULL", text_ptr |-> "NULL", is_static |-> 0,
             style |-> DefaultStyle, block_count |-> 0]
  /\ str = "NONE"
  /\ nodes = <<>>
  /\ ctx = InitCtx
  /\ eff = NoEffect
  /\ pc = "idle"
  /\ doc = <<>>
  /\ pos = 0
  /\ open = <<>>
  /\ used = 0
  /\ spine = 0
  /\ qstack = <<>>
  /\ want = [text |-> "NULL", style |-> DefaultStyle]
  /\ lim = [events |-> MaxNoMemEvents, spine |-> 0, spine_events |-> 0,
            reach |-> 0, more_spans |-> {}]
  /\ last_op = [op |-> "create", arg |-> "NONE", had |-> FALSE,
                before |-> NoBefore]
  /\ mem = NoAllocation
  /\ other = PlainObject

NextNoMem ==
  \/ PassStart
  \/ EnterBlock
  \/ LeaveBlock
  \/ EnterSpan
  \/ LeaveSpan
  \/ Text
  \/ RenderEnd
  \/ EnterBlockNoMem
  \/ LeaveBlockNoMem
  \/ TextNoMem
  \/ ParseAbort

SpecNoMem == InitNoMem /\ [][NextNoMem]_vars

\* The whole render pass over a known event stream, from a fresh context
\* and an empty widget.
RECURSIVE RenderFrom(_, _, _, _)
RenderFrom(c, n, s, events) ==
  IF events = <<>> THEN R(c, n, {})
  ELSE LET r == Dispatch(c, n, s, Head(events))
       IN RenderFrom(r.ctx, r.nodes, s, Tail(events))

Render(events, s) == RenderFrom(InitCtx, <<>>, s, events)

\* Styles with each of the optional inline fonts set or not.
FontStyles ==
  {[CustomStyle EXCEPT !.bold_font = b, !.italic_font = i,
                       !.bold_italic_font = bi, !.code_font = cf] :
     b \in {NULL_FONT, "font_bold"}, i \in {NULL_FONT, "font_italic"},
     bi \in {NULL_FONT, "font_bold_italic"}, cf \in {NULL_FONT, "font_mono"}}

\* The stacks of open spans, each type at most once.
SpanStacks ==
  {st \in UNION {[1..k -> SpanTypes] : k \in 0..3} :
     \A a, b \in 1..Len(st) : a # b => st[a] # st[b]}

\* A render pass that has reached the inside of the text's first paragraph:
\* under any of FontStyles, after an optional first text and with any
\* stack of spans open.  The budget counts the events that follow.
InitFmt ==
  \E st \in FontStyles, pre \in {<<>>} \cup {<<t>> : t \in TextEvents({<<"a">>})},
     sp \in SpanStacks :
    LET blocks == <<Ev("enter_block", "DOC"), Ev("enter_block", "P")>>
        spans == [k \in 1..Len(sp) |-> Ev("enter_span", sp[k])]
        d == blocks \o pre \o spans
        r0 == Render(SubSeq(d, 1, Len(d) - 1), st)
        r == Dispatch(r0.ctx, r0.nodes, st, d[Len(d)])
    IN /\ data = [text |-> "heap", text_ptr |-> "heap", is_static |-> 0,
                  style |-> st, block_count |-> 0]
       /\ str = "MD"
       /\ nodes = r.nodes
       /\ ctx = r.ctx
       /\ eff = [idx |-> r.idx,
                 nodes |-> Len(r.nodes) - Len(r0.nodes),
                 spans |-> TotalSpans(r.nodes) - TotalSpans(r0.nodes),
                 count |-> r.ctx.block_count - r0.ctx.block_count]
       /\ pc = "parse"
       /\ doc = d
       /\ pos = Len(d)
       /\ open = blocks \o spans
       /\ used = 0
       /\ spine = 0
       /\ qstack = <<>>
       /\ want = [text |-> "MD", style |-> st]
       /\ lim = [events |-> MaxFmtEvents, spine |-> 0, spine_events |-> 0,
                 reach |-> 0, more_spans |-> {}]
       /\ last_op = [op |-> "set_text", arg |-> "MD", had |-> FALSE,
                     before |-> NoBefore]
       /\ mem = lv_malloc(NoAllocation)
       /\ other = PlainObject

NextFmt ==
  \/ EnterBlock
  \/ LeaveBlock
  \/ EnterSpan
  \/ LeaveSpan
  \/ Text
  \/ RenderEnd

SpecFmt == InitFmt /\ [][NextFmt]_vars

\* The outer lists of InitList: bullet lists, tight and loose.
OuterLists == {e \in ListEvents : e.type = "UL"}

\* The inner lists of InitList: a loose bullet list, a tight numbered list.
InnerLists == {e \in ListEvents : (e.type = "UL") = ~e.is_tight /\ e.start # 1}

\* A render pass that has reached the inside of the first item of a list
\* that is the first child of the first item of the text's first list.
\* The budget counts the events that follow.
InitList ==
  \E outer \in OuterLists, inner \in InnerLists :
    LET d == <<Ev("enter_block", "DOC"), outer, Ev("enter_block", "LI"),
               inner, Ev("enter_block", "LI")>>
        r0 == Render(SubSeq(d, 1, Len(d) - 1), DefaultStyle)
        r == Dispatch(r0.ctx, r0.nodes, DefaultStyle, d[Len(d)])
    IN /\ data = [text |-> "heap", text_ptr |-> "heap", is_static |-> 0,
                  style |-> DefaultStyle, block_count |-> 0]
       /\ str = "MD"
       /\ nodes = r.nodes
       /\ ctx = r.ctx
       /\ eff = [idx |-> r.idx,
                 nodes |-> Len(r.nodes) - Len(r0.nodes),
                 spans |-> TotalSpans(r.nodes) - TotalSpans(r0.nodes),
                 count |-> r.ctx.block_count - r0.ctx.block_count]
       /\ pc = "parse"
       /\ doc = d
       /\ pos = Len(d)
       /\ open = d
       /\ used = 0
       /\ spine = 0
       /\ qstack = <<>>
       /\ want = [text |-> "MD", style |-> DefaultStyle]
       /\ lim = [events |-> MaxListEvents, spine |-> 0, spine_events |-> 0,
                 reach |-> 0, more_spans |-> {}]
       /\ last_op = [op |-> "set_text", arg |-> "MD", had |-> FALSE,
                     before |-> NoBefore]
       /\ mem = lv_malloc(NoAllocation)
       /\ other = PlainObject

NextList ==
  \/ EnterBlock
  \/ LeaveBlock
  \/ EnterSpan
  \/ LeaveSpan
  \/ Text
  \/ RenderEnd

SpecList == InitList /\ [][NextList]_vars

\* The stacks of open spans of any type, a type possibly inside itself
\* (md4c nests strong in strong and emphasis in emphasis; code spans hold
\* text only).
NestedSpanStacks ==
  {st \in UNION {[1..k -> SpanTypes \cup OtherSpanTypes] : k \in 0..2} :
     \A a \in 1..Len(st) : st[a] = "CODE" => a = Len(st)}

\* A render pass that has reached the inside of the text's first paragraph
\* with any of NestedSpanStacks open, after an optional first text; the
\* text goes on with spans of every type.
InitSpan ==
  \E st \in Styles, pre \in {<<>>} \cup {<<t>> : t \in TextEvents({<<"a">>})},
     sp \in NestedSpanStacks :
    LET blocks == <<Ev("enter_block", "DOC"), Ev("enter_block", "P")>>
        spans == [k \in 1..Len(sp) |-> Ev("enter_span", sp[k])]
        d == blocks \o pre \o spans
        r0 == Render(SubSeq(d, 1, Len(d) - 1), st)
        r == Dispatch(r0.ctx, r0.nodes, st, d[Len(d)])
    IN /\ data = [text |-> "heap", text_ptr |-> "heap", is_static |-> 0,
                  style |-> st, block_count |-> 0]
       /\ str = "MD"
       /\ nodes = r.nodes
       /\ ctx = r.ctx
       /\ eff = [idx |-> r.idx,
                 nodes |-> Len(r.nodes) - Len(r0.nodes),
                 spans |-> TotalSpans(r.nodes) - TotalSpans(r0.nodes),
                 count |-> r.ctx.block_count - r0.ctx.block_count]
       /\ pc = "parse"
       /\ doc = d
       /\ pos = Len(d)
       /\ open = blocks \o spans
       /\ used = 0
       /\ spine = 0
       /\ qstack = <<>>
       /\ want = [text |-> "MD", style |-> st]
       /\ lim = [events |-> MaxSpanEvents, spine |-> 0, spine_events |-> 0,
                 reach |-> 0, more_spans |-> OtherSpanTypes]
       /\ last_op = [op |-> "set_text", arg |-> "MD", had |-> FALSE,
                     before |-> NoBefore]
       /\ mem = lv_malloc(NoAllocation)
       /\ other = PlainObject

NextSpan ==
  \/ EnterBlock
  \/ LeaveBlock
  \/ EnterSpan
  \/ LeaveSpan
  \/ Text
  \/ RenderEnd

SpecSpan == InitSpan /\ [][NextSpan]_vars

\* lv_markdown_get_text: the stored pointer
lv_markdown_get_text(d) == d.text_ptr

\* lv_markdown_get_block_count
lv_markdown_get_block_count(d) == d.block_count

\* What strlen and memcpy can find where a freed text copy was: the old
\* bytes, a NUL first, other bytes, or no readable memory at all.
FreedMemoryReads == {"same", "empty", "other", "crash"}

\* lv_markdown_set_text(obj, lv_markdown_get_text(obj)): the argument is the
\* widget's own text pointer.  When that is the owned copy, lv_markdown_clear
\* frees it before strlen(text) and memcpy read it; a caller's static text
\* is read where it still is.
SetTextOwn ==
  /\ pc = "idle"
  /\ lv_markdown_get_text(data) # "NULL"
  /\ LET cl == lv_markdown_clear(data, nodes)
         d1 == set_text_data(cl.data)
         m1 == lv_malloc(FreeText(mem, cl.freed))
     IN /\ data' = d1
        /\ nodes' = cl.nodes
        /\ ctx' = InitCtx
        /\ eff' = NoEffect
        /\ qstack' = <<>>
        /\ pos' = 0
        /\ open' = <<>>
        /\ \E read \in (IF cl.freed = "NULL" THEN {"same"}
                         ELSE FreedMemoryReads) :
             /\ str' = CASE read = "empty" -> "EMPTY"
                         [] read = "other" -> "MD"
                         [] OTHER -> str
             /\ doc' = IF read = "other" THEN <<>> ELSE doc
             /\ used' = IF read = "other" THEN 0 ELSE used
             /\ spine' = IF read = "other" THEN 0 ELSE spine
             /\ pc' = IF read = "crash" THEN "stopped"
                      ELSE IF RenderRuns(d1, str') THEN "parse" ELSE "idle"
        /\ mem' = IF cl.freed # "NULL"
                  THEN [m1 EXCEPT !.stale_read = TRUE]
                  ELSE m1
        /\ last_op' = [op |-> "set_text", arg |-> "OWN", had |-> nodes # <<>>,
                       before |-> Before(data, str, nodes)]
        /\ UNCHANGED <<lim, want, other>>

\* A widget given texts, also its own.
InitAlias ==
  /\ data = [text |-> "NULL", text_ptr |-> "NULL", is_static |-> 0,
             style |-> DefaultStyle, block_count |-> 0]
  /\ str = "NONE"
  /\ nodes = <<>>
  /\ ctx = InitCtx
  /\ eff = NoEffect
  /\ pc = "idle"
  /\ doc = <<>>
  /\ pos = 0
  /\ open = <<>>
  /\ used = 0
  /\ spine = 0
  /\ qstack = <<>>
  /\ want = [text |-> "NULL", style |-> DefaultStyle]
  /\ lim = [events |-> MaxAliasEvents, spine |-> 0, spine_events |-> 0,
            reach |-> 0, more_spans |-> {}]
  /\ last_op = [op |-> "create", arg |-> "NONE", had |-> FALSE,
                before |-> NoBefore]
  /\ mem = NoAllocation
  /\ other = PlainObject

NextAlias ==
  \/ SetText
  \/ SetTextStatic
  \/ SetTextOwn
  \/ EnterBlock
  \/ LeaveBlock
  \/ EnterSpan
  \/ LeaveSpan
  \/ Text
  \/ RenderEnd

SpecAlias == InitAlias /\ [][NextAlias]_vars

\* ------------------------------------------- code_buf_append at full width
\* A uint32_t as two 16-bit limbs <<high, low>>: the lengths and capacities
\* of code_buf_append beyond what a render pass over a short text reaches.
U32(hi, lo) == <<hi, lo>>
U32_ZERO == U32(0, 0)
U32_ONE == U32(0, 1)
U32_MAX == U32(U32_LIMB - 1, U32_LIMB - 1)

\* a + b, a - b in uint32_t (modulo 2^32)
U32Add(a, b) ==
  LET lo == a[2] + b[2]
  IN U32((a[1] + b[1] + lo \div U32_LIMB) % U32_LIMB, lo % U32_LIMB)
U32Sub(a, b) ==
  LET borrow == IF a[2] < b[2] THEN 1 ELSE 0
  IN U32((a[1] - b[1] - borrow + U32_LIMB) % U32_LIMB,
         (a[2] - b[2] + U32_LIMB) % U32_LIMB)
U32Lt(a, b) == a[1] < b[1] \/ (a[1] = b[1] /\ a[2] < b[2])

\* The doubling loop that never ends.
NO_RETURN == U32(-1, -1)

\* Variant of the loop that stops at the exact size.
GrowCap32_Exact(new_cap, needed) == needed

\* while(new_cap < needed) new_cap *= 2;   in uint32_t: 2^31 * 2 is 0, and
\* from 0 the loop makes no progress.
RECURSIVE GrowCap32(_, _)
GrowCap32(new_cap, needed) ==
  IF ~U32Lt(new_cap, needed) THEN new_cap
  ELSE IF new_cap = U32_ZERO THEN NO_RETURN
  ELSE GrowCap32(U32Add(new_cap, new_cap), needed)

\* A code buffer of the given chunks (the length of each memcpy, in order)
\* with the NUL byte last written at index `nul`.
CodeBuf(chunks, nul) == <<chunks, nul>>
Chunks(buf) == buf[1]
NulIndex(buf) == buf[2]

\* code_buf_append(ctx, text, len) on a context whose code_buf_len and
\* code_buf_cap are limb pairs; realloc_ok is what lv_realloc does when it
\* is called.  `returns` is FALSE when the doubling loop never ends.
code_buf_append32(c, len, realloc_ok) ==
  LET needed == U32Add(U32Add(c.code_buf_len, len), U32_ONE)
      grows == U32Lt(c.code_buf_cap, needed)
      new_cap == GrowCap32(IF c.code_buf_cap = U32_ZERO
                           THEN U32(0, CODE_BUF_INIT_CAP)
                           ELSE c.code_buf_cap, needed)
      old == IF c.code_buf = NULL_BUF THEN <<>> ELSE Chunks(c.code_buf)
      new_len == U32Add(c.code_buf_len, len)
  IN IF len = U32_ZERO THEN [ctx |-> c, returns |-> TRUE]
     \* if(len > UINT32_MAX - ctx->code_buf_len - 1) return;
     ELSE IF U32Lt(U32Sub(U32Sub(U32_MAX, c.code_buf_len), U32_ONE), len)
     THEN [ctx |-> c, returns |-> TRUE]
     ELSE IF grows /\ new_cap = NO_RETURN THEN [ctx |-> c, returns |-> FALSE]
     ELSE IF grows /\ ~realloc_ok THEN [ctx |-> c, returns |-> TRUE]
     ELSE [ctx |-> [c EXCEPT !.code_buf = CodeBuf(Append(old, len), new_len),
                             !.code_buf_len = new_len,
                             !.code_buf_cap = IF grows THEN new_cap ELSE @],
           returns |-> TRUE]

\* The lengths of the texts md_text passes on (MD_SIZE is unsigned):
\* 0, 1, 255, 256, 2^16, 2^31 - 1, 2^31, 2^32 - 2, 2^32 - 1.
AppendLens ==
  {U32(0, 0), U32(0, 1), U32(0, 255), U32(0, 256), U32(1, 0),
   U32(32767, 65535), U32(32768, 0), U32(65535, 65534), U32(65535, 65535)}

\* md_text inside a code block: code_buf_append(ctx, text, size).
BufCall(realloc_ok) ==
  /\ pc = "parse"
  /\ used < lim.events
  /\ \E len \in AppendLens :
       LET r == code_buf_append32(ctx, len, realloc_ok)
       IN /\ ~realloc_ok => code_buf_append32(ctx, len, TRUE) # r
          /\ ctx' = r.ctx
          /\ pc' = IF r.returns THEN "parse" ELSE "hang"
          /\ mem' = IF ctx.code_buf = NULL_BUF /\ r.ctx.code_buf # NULL_BUF
                    THEN [mem EXCEPT !.bufs = @ + 1] ELSE mem
          /\ last_op' = [op |-> "code_buf_append",
                         arg |-> [len |-> len, realloc_ok |-> realloc_ok],
                         had |-> FALSE, before |-> NoBefore]
  /\ used' = used + 1
  /\ UNCHANGED <<data, str, nodes, eff, doc, pos, open, spine, qstack, lim,
                 want, other>>

BufAppend == BufCall(TRUE)
BufAppendNoMem == BufCall(FALSE)

\* A render pass that entered a code block: the buffer is not allocated.
InitBuf ==
  LET d == <<Ev("enter_block", "DOC"), Ev("enter_block", "CODE")>>
      r == Render(d, DefaultStyle)
  IN /\ data = [text |-> "NULL", text_ptr |-> "static", is_static |-> 1,
                style |-> DefaultStyle, block_count |-> 0]
     /\ str = "MD"
     /\ nodes = r.nodes
     /\ ctx = [r.ctx EXCEPT !.code_buf_len = U32_ZERO,
                            !.code_buf_cap = U32_ZERO]
     /\ eff = NoEffect
     /\ pc = "parse"
     /\ doc = d
     /\ pos = Len(d)
     /\ open = d
     /\ used = 0
     /\ spine = 0
     /\ qstack = <<>>
     /\ want = [text |-> "MD", style |-> DefaultStyle]
     /\ lim = [events |-> MaxAppends, spine |-> 0, spine_events |-> 0,
               reach |-> 0, more_spans |-> {}]
     /\ last_op = [op |-> "set_text_static", arg |-> "MD", had |-> FALSE,
                   before |-> NoBefore]
     /\ mem = NoAllocation
     /\ other = PlainObject

NextBuf ==
  \/ BufAppend
  \/ BufAppendNoMem

SpecBuf == InitBuf /\ [][NextBuf]_vars

\* ------------------------------------------------------------- properties
Idle == pc = "idle"

TextOps == {"set_text", "set_text_static"}

\* C1: whatever calls of set_text and set_style came before, once the last
\* call has returned the children and the block count are those of one
\* render pass, on an empty widget, of the last text set under the last
\* non-NULL style set; no children and count 0 when that text is NULL or "".
C1_LastTextAndStyleDecide ==
  Idle =>
    IF want.text \in {"NULL", "EMPTY"}
    THEN nodes = <<>> /\ lv_markdown_get_block_count(data) = 0
    ELSE LET r == Render(doc, want.style)
         IN /\ nodes = r.nodes
            /\ lv_markdown_get_block_count(data) = r.ctx.block_count

\* A text set on a widget that had children and a style set before it.
C1_Witness ==
  /\ Idle
  /\ last_op.op = "set_text"
  /\ last_op.had
  /\ want.text = "MD"
  /\ want.style = CustomStyle
  /\ nodes # <<>>

\* C2: after set_text(NULL) or set_text_static(NULL) the widget has no
\* children, block count 0, and get_text returns NULL.
C2_NullTextClears ==
  (Idle /\ last_op.op \in TextOps /\ last_op.arg = "NULL") =>
    /\ ChildCount(nodes, Widget) = 0
    /\ lv_markdown_get_block_count(data) = 0
    /\ lv_markdown_get_text(data) = "NULL"

\* set_text_static(NULL) on a widget that had rendered content.
C2_Witness ==
  /\ Idle
  /\ last_op.op = "set_text_static"
  /\ last_op.arg = "NULL"
  /\ last_op.had

Rendered == Idle /\ want.text = "MD"

\* A callback has just been run on the event doc[pos].
After(ev, type) ==
  /\ pc = "parse"
  /\ pos > 0
  /\ doc[pos].ev = ev
  /\ doc[pos].type = type

\* Block nesting depth after the first i events of d (DOC is depth 1).
BlockDepth(d, i) ==
  Cardinality({j \in 1..i : d[j].ev = "enter_block"})
    - Cardinality({j \in 1..i : d[j].ev = "leave_block"})

\* The only top-level block of d is one blockquote.
SoleTopLevelQuote(d) ==
  /\ Len(d) >= 4
  /\ d[2].ev = "enter_block" /\ d[2].type = "QUOTE"
  /\ \A i \in 2..(Len(d) - 2) : BlockDepth(d, i) >= 2

\* The block whose enter event was just delivered lies inside a blockquote.
EnteredInsideQuote ==
  /\ pc = "parse"
  /\ pos > 0
  /\ doc[pos].ev = "enter_block"
  /\ \E i \in 1..(Len(open) - 1) : open[i].type = "QUOTE"

\* C4 as the specification states it: the block counter is not incremented
\* for any block nested inside a blockquote, and a document whose only
\* top-level block is a blockquote has block count 1 whatever it contains.
C4_QuoteCountsOnce ==
  /\ EnteredInsideQuote => eff.count = 0
  /\ (Rendered /\ SoleTopLevelQuote(doc)) =>
       lv_markdown_get_block_count(data) = 1

IsParaOrHeadingEnter(e) == e.ev = "enter_block" /\ e.type \in {"P", "H"}
IsOtherBlock(e) ==
  e.ev \in {"enter_block", "leave_block"} /\ e.type \notin {"DOC", "P", "H"}
IsText(e) == e.ev = "text"
IsSoftBreak(e) == e.ev = "text" /\ e.text = <<"\n">>

\* Positions in d of the paragraph and heading enters, of the text events,
\* of the soft breaks.
ParaHeadingEnters(d) == {i \in 1..Len(d) : IsParaOrHeadingEnter(d[i])}
TextPositions(d) == {i \in 1..Len(d) : IsText(d[i])}
SoftBreaks(d) == {i \in 1..Len(d) : IsSoftBreak(d[i])}

\* d is a sequence of top-level paragraphs and headings.
OnlyParagraphsAndHeadings(d) == \A i \in 1..Len(d) : ~IsOtherBlock(d[i])

\* C5: a document of N top-level paragraphs and headings renders to exactly
\* N children of the root, all text blocks, with block count N; a soft line
\* break inside a paragraph adds an inline run to the open text block and
\* never a block.
C5_OneBlockPerParagraph ==
  /\ (Rendered /\ OnlyParagraphsAndHeadings(doc)) =>
       LET N == Cardinality(ParaHeadingEnters(doc))
       IN /\ ChildCount(nodes, Widget) = N
          /\ Len(nodes) = N
          /\ \A k \in 1..N : nodes[k].kind = "spangroup"
          /\ lv_markdown_get_block_count(data) = N
          /\ TotalSpans(nodes) = Cardinality(TextPositions(doc))
  /\ (pc = "parse" /\ pos > 0 /\ IsSoftBreak(doc[pos])
        /\ OnlyParagraphsAndHeadings(doc)) =>
       eff = [idx |-> {}, nodes |-> 0, spans |-> 1, count |-> 0]

\* Two blocks, a heading among them, and a soft break.
C5_Witness ==
  /\ Rendered
  /\ OnlyParagraphsAndHeadings(doc)
  /\ Cardinality(ParaHeadingEnters(doc)) >= 2
  /\ \E i \in 1..Len(doc) : doc[i].ev = "enter_block" /\ doc[i].type = "H"
  /\ SoftBreaks(doc) # {}

IsList(e) == e.type \in {"UL", "OL"}
IsListEnter(e) == e.ev = "enter_block" /\ IsList(e)
IsItemEnter(e) == e.ev = "enter_block" /\ e.type = "LI"
IsNeitherDocNorItem(e) == e.ev = "enter_block" /\ e.type \notin {"DOC", "LI"}

\* Number of lists open in md4c's stack o: the list nesting depth.
ListNest(o) == Cardinality({i \in 1..Len(o) : IsList(o[i])})

\* The list whose item's enter event was just delivered.
ItemList == open[Len(open) - 1]

\* Positions in d of the list-item enters.
ItemEnters(d) == {i \in 1..Len(d) : IsItemEnter(d[i])}

\* d is one top-level tight list whose items hold inline content only.
SoleTightList(d) ==
  /\ Len(d) >= 4
  /\ IsListEnter(d[2]) /\ d[2].is_tight
  /\ {i \in 1..Len(d) : IsNeitherDocNorItem(d[i])} = {2}

\* C6 as the specification states it: the enter event of an item of a tight
\* list creates exactly one text block, attached to the current container,
\* and adds one to the block count; the block's left padding is list_indent
\* times the list nesting depth; a top-level tight list of n items yields n
\* blocks.
C6_TightItemMakesBlock ==
  /\ (After("enter_block", "LI") /\ ItemList.is_tight) =>
       /\ eff.nodes = 1
       /\ eff.count = 1
       /\ nodes[Len(nodes)].kind = "spangroup"
       /\ nodes[Len(nodes)].parent = ctx.cur_container
       /\ nodes[Len(nodes)].pad_left = data.style.list_indent * ListNest(open)
  /\ (Rendered /\ SoleTightList(doc)) =>
       /\ ChildCount(nodes, Widget) = Cardinality(ItemEnters(doc))
       /\ lv_markdown_get_block_count(data)
            = Cardinality(ItemEnters(doc))

\* The lists open after the events i..Len(d) of d, outermost first, given
\* those open before: each with its kind, its start number, and how many of
\* its items were entered and left.
RECURSIVE ListsFrom(_, _, _)
ListsFrom(d, i, st) ==
  IF i > Len(d) THEN st
  ELSE LET e == d[i]
           n == Len(st)
           st2 ==
             IF IsListEnter(e)
             THEN Append(st, [type |-> e.type, start |-> e.start,
                              entered |-> 0, left |-> 0])
             ELSE IF e.ev = "leave_block" /\ IsList(e)
             THEN SubSeq(st, 1, n - 1)
             ELSE IF IsItemEnter(e)
             THEN [st EXCEPT ![n].entered = @ + 1]
             ELSE IF e.ev = "leave_block" /\ e.type = "LI"
             THEN [st EXCEPT ![n].left = @ + 1]
             ELSE st
       IN ListsFrom(d, i + 1, st2)

OpenLists(d) == ListsFrom(d, 1, <<>>)

\* The number prefix of the current item of the innermost open list.
ItemNumberPrefix(d) ==
  LET l == OpenLists(d)[Len(OpenLists(d))]
  IN Decimal(l.start + l.entered - 1) \o <<".", " ">>

\* C7 as the specification states it: in an ordered list with start number
\* s the prefix run of the k-th item is the decimal of s+k-1 followed by
\* ". " (for a tight item the first run of the block its enter creates, for
\* a loose item the first run of its leading paragraph), and the list's
\* counter is s plus the number of its items left so far: incremented once
\* per item on leave, never on enter, unaffected by lists nested in an item.
C7_OrderedPrefixCounts ==
  /\ (After("enter_block", "LI") /\ ItemList.type = "OL" /\ ItemList.is_tight
        /\ eff.nodes = 1) =>
       /\ nodes[Len(nodes)].spans # <<>>
       /\ nodes[Len(nodes)].spans[1].text = ItemNumberPrefix(doc)
  /\ (After("enter_block", "P") /\ IsItemEnter(doc[pos - 1])
        /\ ItemList.type = "OL") =>
       /\ nodes[Len(nodes)].spans # <<>>
       /\ nodes[Len(nodes)].spans[1].text = ItemNumberPrefix(doc)
  /\ (pc = "parse" /\ pos > 0) =>
       LET l == OpenLists(doc)
       IN \A k \in 1..Min(Len(l), MD_LIST_MAX_DEPTH) :
            l[k].type = "OL" =>
              ctx.list_stack[k - 1].counter = l[k].start + l[k].left

\* The text events since the last code-block enter among the events
\* i..Len(d) of d, concatenated in order.
RECURSIVE CodeTextFrom(_, _, _)
CodeTextFrom(d, i, acc) ==
  IF i > Len(d) THEN acc
  ELSE CodeTextFrom(d, i + 1,
         IF d[i].ev = "enter_block" /\ d[i].type = "CODE" THEN <<>>
         ELSE IF d[i].ev = "text" THEN acc \o d[i].text
         ELSE acc)

CodeText(d) == CodeTextFrom(d, 1, <<>>)

QuoteContainer ==
  IF qstack = <<>> THEN Widget ELSE qstack[Len(qstack)].node

\* C9: a blockquote's enter attaches a container to the current container
\* and makes it current; its leave makes current again the container that
\* was current before it opened, at every depth.  So the current container
\* is always the innermost open blockquote's (the root when none is open),
\* an inner blockquote is a child of the outer one, every block attaches to
\* the innermost open blockquote, and a top-level blockquote is one child
\* of the root whatever it contains.
C9_QuoteContainerRestored ==
  /\ pc = "parse" =>
       /\ Len(qstack) = Cardinality({i \in 1..Len(open) : open[i].type = "QUOTE"})
       /\ ctx.cur_container = QuoteContainer
       /\ \A k \in 1..Len(qstack) :
            /\ qstack[k].node \in 1..Len(nodes)
            /\ nodes[qstack[k].node].kind = "blockquote"
            /\ nodes[qstack[k].node].parent = qstack[k].before
            /\ qstack[k].before = IF k = 1 THEN Widget ELSE qstack[k - 1].node
  /\ (pc = "parse" /\ pos > 0 /\ eff.nodes >= 1) =>
       nodes[Len(nodes) - eff.nodes + 1].parent =
         IF doc[pos].ev = "enter_block" /\ doc[pos].type = "QUOTE"
         THEN qstack[Len(qstack)].before
         ELSE QuoteContainer
  /\ (Rendered /\ SoleTopLevelQuote(doc)) => ChildCount(nodes, Widget) = 1

\* A block entered after an inner blockquote was left, the outer one still
\* open: it attaches to the outer blockquote.
C9_Witness ==
  /\ After("enter_block", "HR")
  /\ Len(qstack) = 1
  /\ doc[pos - 1].ev = "leave_block" /\ doc[pos - 1].type = "QUOTE"
  /\ nodes[Len(nodes)].parent = qstack[1].node

\* C10: in every state of a render pass, also over lists nested more than
\* 16 deep, 0 <= list_depth <= 16 and every list_stack index a callback
\* reads or writes is in 0..15.
C10_ListDepthBounded ==
  /\ ctx.list_depth \in 0..MD_LIST_MAX_DEPTH
  /\ eff.idx \subseteq 0..(MD_LIST_MAX_DEPTH - 1)

\* An item of a 17th nested list: the callback used index 15.
C10_Witness ==
  /\ After("enter_block", "LI")
  /\ ListNest(open) > MD_LIST_MAX_DEPTH
  /\ ctx.list_depth = MD_LIST_MAX_DEPTH
  /\ eff.idx = {MD_LIST_MAX_DEPTH - 1}

\* C11 as the specification states it: opening a list nested beyond the
\* 16-level cap pushes nothing, and the enter of an item of such a list
\* renders no bullet or number prefix and no list indent.
C11_OverCapItemsPlain ==
  /\ (pc = "parse" /\ pos > 0 /\ IsListEnter(doc[pos])
        /\ ListNest(open) > MD_LIST_MAX_DEPTH) =>
       /\ ctx.list_depth = MD_LIST_MAX_DEPTH
       /\ eff.idx = {}
  /\ (After("enter_block", "LI") /\ ListNest(open) > MD_LIST_MAX_DEPTH) =>
       /\ eff.spans = 0
       /\ eff.nodes >= 1 => nodes[Len(nodes)].pad_left = 0

\* C12: set_style with a non-NULL style on a widget that has text stores
\* that style, leaves text, text pointer, text content and ownership mode
\* unchanged, and re-renders the text under the new style with the same
\* root child count and block count as before the call; also when repeated.
C12_SetStyleKeepsShape ==
  (Idle /\ last_op.op = "set_style" /\ last_op.arg = "STYLE"
     /\ last_op.before.text_ptr # "NULL") =>
    /\ data.style = want.style
    /\ data.text = last_op.before.text
    /\ lv_markdown_get_text(data) = last_op.before.text_ptr
    /\ data.is_static = last_op.before.is_static
    /\ str = last_op.before.str
    /\ ChildCount(nodes, Widget) = last_op.before.children
    /\ lv_markdown_get_block_count(data) = last_op.before.block_count
    /\ str = "MD" => nodes = Render(doc, data.style).nodes

\* set_style back to the default on static text rendered under the custom
\* style (so after an earlier set_style), with two blocks.
C12_Witness ==
  /\ Idle
  /\ last_op.op = "set_style"
  /\ last_op.arg = "STYLE"
  /\ last_op.before.is_static = 1
  /\ last_op.before.style = CustomStyle
  /\ data.style = DefaultStyle
  /\ last_op.before.children >= 2

\* C13: set_style(obj, NULL) changes nothing: the stored style, the text,
\* its pointer and ownership mode, the block count and the children are
\* what they were before the call.
C13_NullStyleNoOp ==
  (last_op.op = "set_style" /\ last_op.arg = "NULL") =>
    /\ Idle
    /\ Before(data, str, nodes) = last_op.before
    /\ nodes = IF want.text = "MD" THEN Render(doc, data.style).nodes ELSE <<>>

\* set_style(NULL) on a widget with children rendered under the custom
\* style.
C13_Witness ==
  /\ last_op.op = "set_style"
  /\ last_op.arg = "NULL"
  /\ last_op.had
  /\ data.style = CustomStyle

ModeNone(d) == d.text = "NULL" /\ d.text_ptr = "NULL" /\ d.is_static = 0
ModeOwned(d) == d.text # "NULL" /\ d.text_ptr = d.text /\ d.is_static = 0
ModeStatic(d) == d.text = "NULL" /\ d.text_ptr # "NULL" /\ d.is_static = 1

\* C15: in every state the widget's text is in exactly one of the modes
\* none, owned and static.
C15_OneTextMode ==
  Cardinality({m \in {"none", "owned", "static"} :
                 \/ m = "none" /\ ModeNone(data)
                 \/ m = "owned" /\ ModeOwned(data)
                 \/ m = "static" /\ ModeStatic(data)}) = 1

\* set_style has re-rendered a static text that replaced earlier content.
C15_Witness ==
  /\ Idle
  /\ ModeStatic(data)
  /\ last_op.op = "set_style"
  /\ last_op.arg = "STYLE"
  /\ nodes # <<>>

\* C16: every text copy is freed exactly once and memory of the caller is
\* never freed: no lv_free of a pointer that is not a live copy, at most one
\* live copy, which is the one data->text points at, and none once the
\* widget is deleted.
C16_CopyFreedOnce ==
  /\ mem.fault = "none"
  /\ mem.live = IF pc # "deleted" /\ data.text # "NULL" THEN 1 ELSE 0

\* The widget deleted while it held a copy, after an earlier text had been
\* replaced.
C16_Witness ==
  /\ pc = "deleted"
  /\ last_op.before.text = "heap"
  /\ last_op.had
  /\ mem.live = 0

\* lv_markdown_get_text(obj) and lv_markdown_get_block_count(obj) of the
\* plain object: data == NULL, so NULL and 0.
OtherGetText == IF other.user_data = "NULL" THEN "NULL" ELSE "data"
OtherGetBlockCount == IF other.user_data = "NULL" THEN 0 ELSE 1

\* C17: the setters leave an object with user data NULL as it is, its
\* children kept, and the getters return NULL and 0 for it; a widget just
\* created has no text, block count 0 and no children.
C17_NoDataNoOp ==
  /\ other = PlainObject
  /\ OtherGetText = "NULL"
  /\ OtherGetBlockCount = 0
  /\ last_op.op = "create" =>
       /\ lv_markdown_get_text(data) = "NULL"
       /\ lv_markdown_get_block_count(data) = 0
       /\ ChildCount(nodes, Widget) = 0

\* lv_markdown_set_text called on the plain object, the widget showing a
\* text.
C17_Witness ==
  /\ last_op.op = "other"
  /\ last_op.arg = "set_text"
  /\ last_op.had
  /\ nodes # <<>>

\* C18: when creating an object or growing a buffer fails during a render
\* pass, no NULL handle is styled, used as a parent or kept as the current
\* text target or container, and the pass does not stop short.
C18_FailureSkipsTheNode ==
  /\ mem.fault = "none"
  /\ pc # "stopped"
  /\ pc = "parse" => ctx.cur_container # NULL

\* The objects that are blocks: text blocks (also of tight list items),
\* blockquote containers, horizontal rules, code-block containers.
BlockKinds == {"spangroup", "blockquote", "hr", "code_block"}

\* Object i is the first child of its parent.
FirstChild(n, i) == \A j \in 1..(i - 1) : n[j].parent # n[i].parent

\* C19: a block that is the first child of its container (the widget or a
\* blockquote) has top margin 0, every other block has top margin
\* paragraph_spacing.
C19_SpacingBySiblingPosition ==
  \A i \in 1..Len(nodes) :
    nodes[i].kind \in BlockKinds =>
      nodes[i].margin_top = IF FirstChild(nodes, i) THEN 0
                            ELSE data.style.paragraph_spacing

\* A blockquote that is not the first block of the widget, holding two
\* blocks.
C19_Witness ==
  \E q, i, k \in 1..Len(nodes) :
    /\ nodes[q].kind = "blockquote"
    /\ nodes[q].parent = Widget
    /\ ~FirstChild(nodes, q)
    /\ nodes[i].parent = q
    /\ nodes[k].parent = q
    /\ i < k
    /\ FirstChild(nodes, i)
    /\ nodes[i].margin_top = 0
    /\ nodes[k].margin_top = data.style.paragraph_spacing
    /\ data.style.paragraph_spacing > 0

\* A heading event of level L.
Heading(L) == [Ev("enter_block", "H") EXCEPT !.level = L]

\* Heading levels md4c does not produce.
OtherLevels == {0, 7}

\* C20: the text block of a heading of level L in 1..6 has font
\* heading_font[L-1], or body_font when that is not set, and colour
\* heading_color[L-1]; the text block of a paragraph has body_font and
\* body_color, and so would a heading of a level outside 1..6.
C20_HeadingFontAndColour ==
  /\ (pc = "parse" /\ pos > 0 /\ doc[pos].ev = "enter_block"
      /\ doc[pos].type \in {"P", "H"} /\ eff.nodes = 1) =>
       LET e == doc[pos]
           L == e.level
           b == nodes[Len(nodes)]
           st == data.style
       IN IF e.type = "H" /\ L \in 1..6
          THEN /\ b.font = IF st.heading_font[L - 1] # NULL_FONT
                           THEN st.heading_font[L - 1] ELSE st.body_font
               /\ b.color = st.heading_color[L - 1]
          ELSE /\ b.font = st.body_font
               /\ b.color = st.body_color
  /\ \A L \in OtherLevels :
       /\ BlockFont(Heading(L), data.style) = data.style.body_font
       /\ BlockColor(Heading(L), data.style) = data.style.body_color

\* A level-1 heading entered under a style with heading_font[0] set.
C20_Witness ==
  /\ After("enter_block", "H")
  /\ doc[pos].level = 1
  /\ data.style.heading_font[0] # NULL_FONT
  /\ nodes[Len(nodes)].font = data.style.heading_font[0]
  /\ nodes[Len(nodes)].font # data.style.body_font
  /\ nodes[Len(nodes)].color # data.style.body_color

\* The last callback was md_text and it created a run.
RunCreated == After("text", "NORMAL") /\ eff.spans = 1

\* That run: the last one of the current text block.
LastRun == nodes[ctx.cur_span].spans[Len(nodes[ctx.cur_span].spans)]

\* The formatting flags in effect (md_text does not change them).
Bold == HasBit(ctx.fmt_flags, MD_FMT_BOLD)
Italic == HasBit(ctx.fmt_flags, MD_FMT_ITALIC)
Code == HasBit(ctx.fmt_flags, MD_FMT_CODE)

\* What a run's local style can hold: font, decoration, letter spacing.
RunStyle(font, decor, letter_space) ==
  /\ LastRun.font = font
  /\ LastRun.decor = decor
  /\ LastRun.letter_space = letter_space
  /\ LastRun.color = "unset"
  /\ LastRun.bg_color = "unset"

C23_ItalicOnly ==
  (RunCreated /\ ~Bold /\ Italic /\ ~Code) =>
    IF data.style.italic_font # NULL_FONT
    THEN RunStyle(data.style.italic_font, "unset", NULL)
    ELSE RunStyle("unset", "underline", NULL)

\* An italic run under a style with italic_font set.
C23_Witness ==
  /\ RunCreated /\ ~Bold /\ Italic /\ ~Code
  /\ data.style.italic_font # NULL_FONT
  /\ LastRun.font = data.style.italic_font
  /\ LastRun.decor = "unset"

\* C24: a run made while the code flag is set, whatever the bold and italic
\* flags, gets code_font (body_font if not set) and code_color, and no
\* underline, letter spacing or background.
C24_CodeIsExclusive ==
  (RunCreated /\ Code) =>
    /\ LastRun.font = IF data.style.code_font # NULL_FONT
                      THEN data.style.code_font ELSE data.style.body_font
    /\ LastRun.color = data.style.code_color
    /\ LastRun.decor = "unset"
    /\ LastRun.letter_space = NULL
    /\ LastRun.bg_color = "unset"

\* A code run inside bold and italic, under a style with no code_font and
\* no emphasis font.
C24_Witness ==
  /\ RunCreated /\ Code /\ Bold /\ Italic
  /\ data.style.code_font = NULL_FONT
  /\ data.style.bold_font = NULL_FONT
  /\ data.style.italic_font = NULL_FONT
  /\ data.style.bold_italic_font = NULL_FONT
  /\ LastRun.font = data.style.body_font

\* C25: a run made while no formatting flag is set has no local style.
C25_PlainRunInherits ==
  (RunCreated /\ ctx.fmt_flags = 0) =>
    /\ RunStyle("unset", "unset", NULL)
    /\ LastRun.text = doc[pos].text

\* A plain run after a formatted run that followed a plain run, in one
\* text block.
C25_Witness ==
  /\ RunCreated
  /\ ctx.fmt_flags = 0
  /\ LET runs == nodes[ctx.cur_span].spans
     IN /\ Len(runs) = 3
        /\ runs[1].font = "unset" /\ runs[1].decor = "unset"
        /\ runs[1].letter_space = NULL
        /\ runs[2].font # "unset" \/ runs[2].decor # "unset"
             \/ runs[2].letter_space # NULL
        /\ runs[3].font = "unset" /\ runs[3].decor = "unset"
        /\ runs[3].letter_space = NULL

\* The step is md_parse delivering an event of kind ev to its callback.
Delivers(ev) ==
  /\ pc = "parse"
  /\ pc' = "parse"
  /\ pos' = pos + 1
  /\ doc'[pos'].ev = ev

\* The text accumulated for the code block (nothing: no buffer yet).
Accumulated(c) == IF c.code_buf = NULL_BUF THEN <<>> ELSE c.code_buf

\* The runs of every object that existed before the step are unchanged,
\* but for those of object `target` (NULL: of none).
RunsKeptBut(target) ==
  /\ Len(nodes') >= Len(nodes)
  /\ \A i \in 1..Len(nodes) : i # target => nodes'[i].spans = nodes[i].spans

InsideBlockOf(types) ==
  \E i \in 1..Len(open) :
    open[i].ev = "enter_block" /\ open[i].type \in types

\* C27 as stated: cur_span is non-NULL only strictly between the enter
\* event of a paragraph or heading and its leave event.
C27_TargetOnlyInParagraphOrHeading ==
  ctx.cur_span # NULL => InsideBlockOf({"P", "H"})

\* C27: cur_span is non-NULL only strictly between the enter event and the
\* matching leave event of a paragraph, a heading or a list item.
C27_TargetOnlyInTextBlockOrItem ==
  ctx.cur_span # NULL => InsideBlockOf({"P", "H", "LI"})

\* The text block of a tight list's item is the target with no paragraph
\* or heading open, and has taken a text.
C27_Witness ==
  /\ After("text", "NORMAL")
  /\ ctx.cur_span # NULL
  /\ eff.spans = 1
  /\ open[Len(open)].type = "LI"
  /\ ~InsideBlockOf({"P", "H"})

\* md4c's open blocks after the events d[i..], from the stack st: each with
\* its enter event and the number of paragraphs entered so far that belong
\* to it (it is the innermost open list item around them).
NearestItem(st) ==
  LET items == {k \in 1..Len(st) : st[k].e.type = "LI"}
  IN IF items = {} THEN 0 ELSE CHOOSE k \in items : \A m \in items : m <= k

RECURSIVE ItemsFrom(_, _, _)
ItemsFrom(d, i, st) ==
  IF i > Len(d) THEN st
  ELSE LET e == d[i]
           k == NearestItem(st)
           counted == IF e.ev = "enter_block" /\ e.type = "P" /\ k > 0
                      THEN [st EXCEPT ![k].paras = @ + 1] ELSE st
       IN ItemsFrom(d, i + 1,
            IF e.ev = "enter_block"
            THEN Append(counted, [e |-> e, paras |-> 0])
            ELSE IF e.ev = "leave_block" THEN SubSeq(st, 1, Len(st) - 1)
            ELSE st)

\* The open blocks before the last event delivered.
OpenItems == ItemsFrom(SubSeq(doc, 1, pos - 1), 1, <<>>)

\* C28: a paragraph entered inside an item of a loose list starts with the
\* item's prefix run if it is the first paragraph that belongs to that
\* item, and has no run if it is a later one.
C28_FirstParagraphGetsPrefix ==
  After("enter_block", "P") =>
    LET st == OpenItems
        k == NearestItem(st)
    IN (k > 1 /\ ~st[k - 1].e.is_tight) =>
         /\ eff.nodes = 1
         /\ Len(nodes[Len(nodes)].spans) = IF st[k].paras = 0 THEN 1 ELSE 0

\* C29: the text block of a heading entered while a list is active has
\* left padding list_indent x list depth, and a prefix armed before it is
\* its leading run and is disarmed.
C29_HeadingInListLikeParagraph ==
  [][ (Delivers("enter_block") /\ doc'[pos'].type = "H"
       /\ ctx.list_depth > 0) =>
        /\ Len(nodes') = Len(nodes) + 1
        /\ nodes'[Len(nodes')].pad_left =
             data.style.list_indent * ctx.list_depth
        /\ ctx.li_first_paragraph # 0 =>
             /\ Len(nodes'[Len(nodes')].spans) = 1
             /\ ctx'.li_first_paragraph = 0
    ]_vars

\* md_parse is between the enter and the leave event of a code block.
InsideCodeBlock == pc = "parse" /\ InsideBlockOf({"CODE"})

C31_CodeBufferFreedOnce ==
  /\ mem.bufs \in {0, 1}
  /\ pc = "parse" => (mem.bufs = 1 <=> ctx.code_buf # NULL_BUF)
  /\ pc = "idle" => mem.bufs = 0

\* A pass stopped inside a code block after its text: the cleanup after the
\* parse freed the buffer.
C31_Witness ==
  /\ pc = "idle"
  /\ open # <<>>
  /\ open[Len(open)] = Ev("enter_block", "CODE")
  /\ doc[pos].ev = "text"
  /\ mem.freed_by = "cleanup"
  /\ mem.bufs = 0


\* The capacities the doubling can give: 256 doubled zero or more times.
RECURSIVE Doubled(_, _)
Doubled(x, k) == IF k = 0 THEN x ELSE Doubled(U32Add(x, x), k - 1)
Capacities == {Doubled(U32(0, CODE_BUF_INIT_CAP), k) : k \in 0..23}

BufferFields(c) == <<c.code_buf, c.code_buf_len, c.code_buf_cap>>

\* The call of code_buf_append made by this step is one the function
\* refuses: no bytes, a total beyond the 32-bit counter, or a failed
\* reallocation.
RefusedAppend ==
  /\ last_op'.op = "code_buf_append"
  /\ \/ last_op'.arg.len = U32_ZERO
     \/ U32Lt(U32Sub(U32Sub(U32_MAX, ctx.code_buf_len), U32_ONE),
              last_op'.arg.len)
     \/ /\ ~last_op'.arg.realloc_ok
        /\ U32Lt(ctx.code_buf_cap,
                 U32Add(U32Add(ctx.code_buf_len, last_op'.arg.len), U32_ONE))

\* C32: whenever the code buffer is allocated, code_buf_len + 1 <=
\* code_buf_cap, the NUL byte is at index code_buf_len and the capacity is
\* 256 doubled zero or more times; an append of zero bytes, one whose total
\* would overflow the 32-bit counter, or one whose reallocation fails
\* leaves contents, length and capacity unchanged.
C32_BufferInvariant ==
  /\ [](ctx.code_buf # NULL_BUF =>
          /\ U32Lt(ctx.code_buf_len, ctx.code_buf_cap)
          /\ NulIndex(ctx.code_buf) = ctx.code_buf_len
          /\ ctx.code_buf_cap \in Capacities)
  /\ [][RefusedAppend => BufferFields(ctx') = BufferFields(ctx)]_vars

\* Two appends were made and the second grew the buffer past its first
\* capacity; then a third one was refused.
C32_Witness ==
  /\ last_op.op = "code_buf_append"
  /\ last_op.arg.len = U32_MAX
  /\ ctx.code_buf # NULL_BUF
  /\ Len(Chunks(ctx.code_buf)) = 2
  /\ ctx.code_buf_cap = U32(0, 512)
  /\ pc = "parse"


\* C38: for every current length and append length that pass the overflow
\* guard, the capacity-doubling loop of code_buf_append ends (with a
\* capacity that holds the bytes and the NUL): no call fails to return.
C38_DoublingTerminates == pc # "hang"


\* The formatting bit the specification gives a span type (0: none).
BitOfSpan(type) ==
  IF type = "STRONG" THEN MD_FMT_BOLD
  ELSE IF type = "EM" THEN MD_FMT_ITALIC
  ELSE IF type = "CODE" THEN MD_FMT_CODE
  ELSE 0

\* Context c2 is c but for its formatting flags.
SameButFlags(c, c2) == [c2 EXCEPT !.fmt_flags = c.fmt_flags] = c

\* C33: a span enter event sets, and a span leave event clears, the bit of
\* its type in the formatting flags (strong, emphasis, inline code) and
\* changes no other bit, no other context field and nothing in the tree; a
\* span of another kind changes nothing at all, and a text inside such
\* spans only becomes a run with no formatting.
C33_SpansOnlyToggleTheirBit ==
  [][ /\ (Delivers("enter_span") \/ Delivers("leave_span")) =>
           LET e == doc'[pos']
           IN /\ nodes' = nodes
              /\ SameButFlags(ctx, ctx')
              /\ \A b \in {MD_FMT_BOLD, MD_FMT_ITALIC, MD_FMT_CODE} :
                   HasBit(ctx'.fmt_flags, b) =
                     IF b = BitOfSpan(e.type) THEN e.ev = "enter_span"
                     ELSE HasBit(ctx.fmt_flags, b)
              /\ ctx'.fmt_flags \in 0..7
      /\ (Delivers("text") /\ open[Len(open)].ev = "enter_span"
            /\ \A k \in 1..Len(open) :
                 open[k].ev = "enter_span" => open[k].type \in OtherSpanTypes) =>
           /\ ctx'.fmt_flags = 0
           /\ LET runs == nodes'[ctx'.cur_span].spans
              IN /\ Len(runs) = Len(nodes[ctx.cur_span].spans) + 1
                 /\ runs[Len(runs)] = [text |-> doc'[pos'].text,
                       font |-> "unset", color |-> "unset", decor |-> "unset",
                       letter_space |-> NULL, bg_color |-> "unset"]
    ]_vars

\* A link was entered inside a strong span, a text made a bold run there,
\* and the link was left: the flags are still those of the strong span.
C33_Witness ==
  /\ After("leave_span", "A")
  /\ doc[pos - 1].ev = "text"
  /\ doc[pos - 2] = Ev("enter_span", "A")
  /\ doc[pos - 3] = Ev("enter_span", "STRONG")
  /\ ctx.fmt_flags = MD_FMT_BOLD
  /\ Len(nodes[ctx.cur_span].spans) >= 1


\* A span of the given type is open.
SpanOpen(type) == \E k \in 1..Len(open) : open[k] = Ev("enter_span", type)

\* C36: during a pass the bold bit is set exactly when a strong span is
\* open and the italic bit exactly when an emphasis span is open, also with
\* spans nested in spans of their own kind; so a run created inside a
\* strong or emphasis span (and no code span) never is a plain run.
C36_BitIffSpanOpen ==
  pc = "parse" =>
    /\ Bold <=> SpanOpen("STRONG")
    /\ Italic <=> SpanOpen("EM")
    /\ (RunCreated /\ ~Code /\ (SpanOpen("STRONG") \/ SpanOpen("EM"))) =>
         ~RunStyle("unset", "unset", NULL)


\* The enter events of the lists open in md4c's stack, outermost first.
OpenListEnters == SelectSeq(open, IsListEnter)

\* C34: list pushes and pops stay paired, also over the 16-level cap: in
\* every state of a pass list_depth is the number of open lists (at most
\* 16), and the list context in effect is that of the innermost open list
\* within the cap, with its ordered flag and its tight flag.
C34_PushPopPaired ==
  (pc = "parse" /\ pos > 0) =>
    LET l == OpenListEnters
        n == Min(Len(l), MD_LIST_MAX_DEPTH)
    IN /\ ctx.list_depth = n
       /\ n > 0 =>
            LET top == ctx.list_stack[ctx.list_depth - 1]
            IN /\ top.is_ordered = (IF l[n].type = "OL" THEN 1 ELSE 0)
               /\ top.is_tight = (IF l[n].is_tight THEN 1 ELSE 0)


IsBlockEnter(e) == e.ev = "enter_block"

\* The innermost open block is an item of a tight list: md4c gives the
\* item's text as text events of the item itself.
DirectlyInTightItem ==
  LET b == SelectSeq(open, IsBlockEnter)
  IN /\ Len(b) >= 2
     /\ b[Len(b)].type = "LI"
     /\ b[Len(b) - 1].is_tight

\* C35: every text event of a tight list item becomes a run of an open
\* text block, also when it follows a nested list, heading or other block
\* of that item: none is discarded.
C35_TightItemTextKept ==
  (After("text", "NORMAL") /\ DirectlyInTightItem) =>
    /\ ctx.cur_span # NULL
    /\ eff.spans = 1
    /\ LastRun.text = doc[pos].text


\* C37: lv_markdown_set_text never reads memory it has freed, also when
\* its argument is the pointer lv_markdown_get_text returned for the
\* widget's owned copy; after that call the widget holds a copy of the same
\* text, rendered as before.
C37_SetTextReadsNoFreedMemory ==
  /\ ~mem.stale_read
  /\ (last_op.op = "set_text" /\ last_op.arg = "OWN") =>
       /\ pc # "stopped"
       /\ ModeOwned(data)
       /\ str = last_op.before.str
       /\ Idle => ChildCount(nodes, Widget) = last_op.before.children


\* md_parse has delivered the leave event of the document: the stream is
\* balanced and lv_markdown_render is about to store the block count.
PassComplete == pc = "parse" /\ pos > 0 /\ open = <<>>

\* C39: at the end of a render pass over a balanced event stream the
\* context is back at its initial values (cur_span NULL, cur_container the
\* widget, list_depth 0, fmt_flags 0, in_code_block 0, no code buffer,
\* block_depth 0), and the block count stored in the widget is the
\* context's final block counter.
C39_ContextBackAtStart ==
  /\ [](PassComplete =>
          /\ ctx.cur_span = NULL
          /\ ctx.cur_container = Widget
          /\ ctx.list_depth = 0
          /\ ctx.fmt_flags = 0
          /\ ctx.in_code_block = 0
          /\ ctx.code_buf = NULL_BUF
          /\ ctx.block_depth = 0)
  /\ [][(PassComplete /\ pc' = "idle") =>
          data'.block_count = ctx.block_count]_vars

\* A pass over a blockquote holding a formatted paragraph has ended with
\* one block counted.
C39_Witness ==
  /\ Idle
  /\ pos = Len(doc)
  /\ open = <<>>
  /\ Len(doc) >= 8
  /\ doc[2] = Ev("enter_block", "QUOTE")
  /\ doc[3] = Ev("enter_block", "P")
  /\ doc[4].ev = "enter_span"
  /\ data.block_count = 1
  /\ ChildCount(nodes, Widget) = 1


\* The objects the step creates come after every object there was, and
\* those keep their kind and their parent (lv_obj_create adds a last child).
CreatesAfterAll ==
  /\ Len(nodes') >= Len(nodes)
  /\ \A i \in 1..Len(nodes) :
       /\ nodes'[i].kind = nodes[i].kind
       /\ nodes'[i].parent = nodes[i].parent

\* The runs the step leaves in object i start with those it had.
RunsExtended(i) ==
  /\ Len(nodes'[i].spans) >= Len(nodes[i].spans)
  /\ SubSeq(nodes'[i].spans, 1, Len(nodes[i].spans)) = nodes[i].spans

\* C40: the objects of a pass, and so the children of the root and of
\* every blockquote, are in the order of their blocks' enter events: every
\* callback adds its objects after all existing ones and moves none, only
\* block enter events and the leave event of a code block create objects,
\* and between the enter and the leave of a code block none is created, so
\* its container takes the place of its enter event.  Within a text block
\* the prefix run, made with the block, is the first run, and every text
\* event adds its run after the runs there are.
C40_ChildrenInEventOrder ==
  [][ (pc = "parse" /\ pc' = "parse" /\ pos' = pos + 1) =>
        LET e == doc'[pos']
            inCode == open # <<>> /\ open[Len(open)] = Ev("enter_block", "CODE")
        IN /\ CreatesAfterAll
           /\ \A i \in 1..Len(nodes) : RunsExtended(i)
           /\ Len(nodes') > Len(nodes) =>
                \/ e.ev = "enter_block" /\ ~inCode
                \/ e = Ev("leave_block", "CODE") /\ inCode
           /\ (inCode /\ e.ev # "leave_block") => Len(nodes') = Len(nodes)
           \* a new block has at most one run, and no text event made it
           /\ \A i \in (Len(nodes) + 1)..Len(nodes') :
                Len(nodes'[i].spans) <= 1
           /\ e.ev # "text" =>
                \A i \in 1..Len(nodes) : nodes'[i].spans = nodes[i].spans
           /\ e.ev = "text" =>
                \A i \in 1..Len(nodes) :
                  \/ nodes'[i].spans = nodes[i].spans
                  \/ /\ Len(nodes'[i].spans) = Len(nodes[i].spans) + 1
                     /\ nodes'[i].spans[Len(nodes'[i].spans)].text = e.text
    ]_vars

\* A code block between two paragraphs: three children of the root, the
\* code block's container second.
C40_Witness ==
  /\ After("enter_block", "P")
  /\ Len(Children(nodes, Widget)) = 3
  /\ nodes[Children(nodes, Widget)[1]].kind = "spangroup"
  /\ nodes[Children(nodes, Widget)[2]].kind = "code_block"
  /\ nodes[Children(nodes, Widget)[3]].kind = "spangroup"

=============================================================================
